---- MODULE Spec2Model ----
(***************************************************************************)
(* Model of the POST /api/annotate handler of the PDF Suite backend:       *)
(* request validation, the loop over the annotation list,                  *)
(* the canvas-to-page coordinate conversion, the pdf-lib draw calls, the   *)
(* serialization, the single response and the cleanup of the upload; and   *)
(* of its helper functions convertCoords and hexToRgb on their own.        *)
(***************************************************************************)
EXTENDS Integers, Naturals, Sequences, FiniteSets, TLC

(***************************************************************************)
(* Bounds of the model.                                                    *)
(***************************************************************************)
MaxAnns == 2        \* longest annotation list of a request
MaxPages == 2       \* largest page count of an uploaded document
MaxPts == 3         \* longest point list of a freehand stroke
MaxCanvas == 4      \* largest canvas width and height given to convertCoords alone
MaxHexLen == 7      \* most characters after the '#' of a color given to hexToRgb alone
MaxRangeLen == 4    \* longest range string given to parsePageRange alone
MaxFiles == 2       \* most files uploaded to /api/merge, most files dropped on MergeTool

(***************************************************************************)
(* JavaScript numbers.  A finite number is the exact fraction n/d in       *)
(* lowest terms (d > 0); the three non-finite values of IEEE arithmetic    *)
(* are kept apart, since a division by zero yields them instead of         *)
(* raising.                                                                *)
(***************************************************************************)
Abs(i) == IF i < 0 THEN -i ELSE i

Sgn(i) == IF i < 0 THEN -1 ELSE IF i = 0 THEN 0 ELSE 1

RECURSIVE Gcd(_, _)
Gcd(a, b) == IF b = 0 THEN a ELSE Gcd(b, a % b)

NaN == [k |-> "nan", n |-> 0, d |-> 1]
PosInf == [k |-> "pinf", n |-> 0, d |-> 1]
NegInf == [k |-> "ninf", n |-> 0, d |-> 1]

Frac(n, d) ==
  LET g == Gcd(Abs(n), d)
  IN  [k |-> "fin", n |-> n \div g, d |-> d \div g]

Num(i) == [k |-> "fin", n |-> i, d |-> 1]

IsFinite(a) == a.k = "fin"

SignOf(a) == IF a.k = "pinf" THEN 1 ELSE IF a.k = "ninf" THEN -1 ELSE Sgn(a.n)

InfOfSign(s) == IF s < 0 THEN NegInf ELSE PosInf

\* a + b
JsAdd(a, b) ==
  IF a.k = "nan" \/ b.k = "nan" THEN NaN
  ELSE IF IsFinite(a) /\ IsFinite(b) THEN Frac(a.n * b.d + b.n * a.d, a.d * b.d)
  ELSE IF IsFinite(a) THEN b
  ELSE IF IsFinite(b) THEN a
  ELSE IF a.k = b.k THEN a ELSE NaN

JsNeg(a) ==
  IF a.k = "nan" THEN NaN
  ELSE IF a.k = "pinf" THEN NegInf
  ELSE IF a.k = "ninf" THEN PosInf
  ELSE Frac(-a.n, a.d)

\* a - b
JsSub(a, b) == JsAdd(a, JsNeg(b))

\* a * b
JsMul(a, b) ==
  IF a.k = "nan" \/ b.k = "nan" THEN NaN
  ELSE IF IsFinite(a) /\ IsFinite(b) THEN Frac(a.n * b.n, a.d * b.d)
  ELSE IF SignOf(a) = 0 \/ SignOf(b) = 0 THEN NaN
  ELSE InfOfSign(SignOf(a) * SignOf(b))

\* a / b (the zero divisors of the model are +0)
JsDiv(a, b) ==
  IF a.k = "nan" \/ b.k = "nan" THEN NaN
  ELSE IF IsFinite(a) /\ IsFinite(b) THEN
         IF b.n = 0
         THEN IF a.n = 0 THEN NaN ELSE InfOfSign(SignOf(a))
         ELSE Frac(a.n * b.d * Sgn(b.n), a.d * Abs(b.n))
  ELSE IF IsFinite(a) THEN Num(0)
  ELSE IF IsFinite(b) THEN InfOfSign(SignOf(a) * (IF SignOf(b) < 0 THEN -1 ELSE 1))
  ELSE NaN

(***************************************************************************)
(* Request inputs.                                                         *)
(***************************************************************************)
\* ann.page: a number, or undefined when the field is missing
Undefined == [def |-> FALSE, v |-> 0]
Idx(i) == [def |-> TRUE, v |-> i]

\* ann.canvasSize, ann.rect, ann.paths: present or missing
NoCanvas == [present |-> FALSE, width |-> 0, height |-> 0]
Canvas(w, h) == [present |-> TRUE, width |-> w, height |-> h]

NoRect == [present |-> FALSE, x |-> 0, y |-> 0, width |-> 0, height |-> 0]
Rect(x, y, w, h) == [present |-> TRUE, x |-> x, y |-> y, width |-> w, height |-> h]

NoPaths == [present |-> FALSE, pts |-> << >>]
Paths(s) == [present |-> TRUE, pts |-> s]

\* ann.color: a string (its characters), or missing
NoColor == [present |-> FALSE, chars |-> << >>]
Color(s) == [present |-> TRUE, chars |-> s]

\* ann.strokeWidth: a number, or missing
NoStrokeWidth == [def |-> FALSE, v |-> 0]
StrokeWidth(w) == [def |-> TRUE, v |-> w]

Ann(t, p, c, r, ps) ==
  [type |-> t, page |-> p, canvasSize |-> c, rect |-> r, paths |-> ps,
   color |-> NoColor, strokeWidth |-> NoStrokeWidth]

\* the i-th point of the sample stroke (canvas pixels)
Pt(i) == <<30 * i, 10 * ((i * i) % 7)>>

Stroke(n) == Paths([i \in 1..n |-> Pt(i)])

BaseCanvas == Canvas(300, 400)
SmallCanvas == Canvas(150, 100)

SampleRects == {Rect(30, 40, 60, 80), Rect(30, 120, 60, -80)}

\* page indices before the first page, of the first and the last page, and
\* one past the last page
PageIndices == {Idx(i) : i \in {-1, 0, MaxPages - 1, MaxPages}}

\* annotations with every field of their type: highlights on every page
\* index, a stroke past the last page, strokes of every length
WellFormedAnns ==
  {Ann("highlight", p, BaseCanvas, Rect(30, 40, 60, 80), NoPaths) : p \in PageIndices}
    \cup {Ann("highlight", Idx(0), BaseCanvas, r, NoPaths) : r \in SampleRects}
    \cup {Ann("draw", Idx(MaxPages), BaseCanvas, NoRect, Stroke(2))}
    \cup {Ann("draw", Idx(0), SmallCanvas, NoRect, Stroke(n)) : n \in 0..MaxPts}
    \cup {Ann("highlight", Idx(1), SmallCanvas, Rect(30, 40, 60, 80), NoPaths),
          Ann("text", Idx(0), BaseCanvas, NoRect, NoPaths)}

Red == <<"#", "F", "F", "0", "0", "0", "0">>
ShortHex == <<"#", "f", "0", "0">>

\* annotations with a color or a stroke width
StyledAnns ==
  {[Ann("highlight", Idx(0), BaseCanvas, Rect(30, 40, 60, 80), NoPaths)
      EXCEPT !.color = Color(s)] : s \in {Red, ShortHex}}
    \cup {[Ann("draw", Idx(0), BaseCanvas, NoRect, Stroke(2))
             EXCEPT !.strokeWidth = StrokeWidth(w)] : w \in {0, 5, -2}}

\* annotations drawn on a canvas that reports a zero width or height
ZeroCanvasAnns ==
  {Ann("highlight", Idx(0), Canvas(0, 400), Rect(0, 40, 60, 80), NoPaths),
   Ann("draw", Idx(0), Canvas(0, 0), NoRect, Stroke(2))}

\* annotations missing a field their type requires
MalformedAnns ==
  {Ann("highlight", Undefined, BaseCanvas, Rect(30, 40, 60, 80), NoPaths),
   Ann("highlight", Idx(0), NoCanvas, Rect(30, 40, 60, 80), NoPaths),
   Ann("highlight", Idx(0), BaseCanvas, NoRect, NoPaths),
   Ann("draw", Idx(0), BaseCanvas, NoRect, NoPaths),
   Ann("text", Idx(0), NoCanvas, NoRect, NoPaths)}

Annotations == WellFormedAnns \cup StyledAnns \cup ZeroCanvasAnns \cup MalformedAnns

RECURSIVE SeqsUpTo(_, _)
SeqsUpTo(S, n) ==
  IF n = 0 THEN {<< >>}
  ELSE LET shorter == SeqsUpTo(S, n - 1)
       IN  shorter \cup {Append(s, e) : s \in {t \in shorter : Len(t) = n - 1}, e \in S}

\* req.body.annotations after JSON.parse: not parsable, not an array, or a list
Bodies ==
  {[kind |-> "invalid", anns |-> << >>], [kind |-> "notArray", anns |-> << >>]}
    \cup {[kind |-> "array", anns |-> s] : s \in SeqsUpTo(Annotations, MaxAnns)}

\* page sizes of the uploaded document, in page points
PageSize(i) == IF i % 2 = 1 THEN <<600, 800>> ELSE <<200, 100>>

\* the uploaded document: a single page, or MaxPages pages of two sizes
Docs == {[i \in 1..n |-> PageSize(i)] : n \in {1, MaxPages}}

\* a request without an uploaded file carries nothing the handler reads
Requests ==
  [hasFile : {TRUE}, body : Bodies, doc : Docs]
    \cup {[hasFile |-> FALSE, body |-> [kind |-> "invalid", anns |-> << >>],
           doc |-> <<PageSize(1)>>]}

(***************************************************************************)
(* hexToRgb: a color string to rgb components in 0..1.                     *)
(***************************************************************************)
HexDigits ==
  {"0", "1", "2", "3", "4", "5", "6", "7", "8", "9",
   "a", "b", "c", "d", "e", "f", "A", "B", "C", "D", "E", "F"}

\* value of one hexadecimal digit, as parseInt(_, 16) reads it
HexVal(c) ==
  CASE c = "0" -> 0 [] c = "1" -> 1 [] c = "2" -> 2 [] c = "3" -> 3
    [] c = "4" -> 4 [] c = "5" -> 5 [] c = "6" -> 6 [] c = "7" -> 7
    [] c = "8" -> 8 [] c = "9" -> 9
    [] c \in {"a", "A"} -> 10 [] c \in {"b", "B"} -> 11 [] c \in {"c", "C"} -> 12
    [] c \in {"d", "D"} -> 13 [] c \in {"e", "E"} -> 14 [] c \in {"f", "F"} -> 15

\* parseInt of a two-digit group, base 16
parseInt16(c1, c2) == 16 * HexVal(c1) + HexVal(c2)

\* rgb(r, g, b) of pdf-lib
rgb(r, g, b) == [r |-> r, g |-> g, b |-> b]

\* the groups of /^#?([a-f\d]{2})([a-f\d]{2})([a-f\d]{2})$/i.exec(hex): the six
\* digits after the optional '#', or << >> when the string does not match
hexGroups(chars) ==
  LET digits == IF chars # << >> /\ chars[1] = "#" THEN Tail(chars) ELSE chars
  IN  IF Len(digits) = 6 /\ \A j \in 1..6 : digits[j] \in HexDigits
      THEN digits ELSE << >>

\* variant: a channel divided by 256
hexToRgbOver256(hex) ==
  IF ~hex.present \/ hex.chars = << >> THEN rgb(Num(1), Num(1), Num(0))
  ELSE LET result == hexGroups(hex.chars)
       IN  IF result # << >>
           THEN rgb(Frac(parseInt16(result[1], result[2]), 256),
                    Frac(parseInt16(result[3], result[4]), 256),
                    Frac(parseInt16(result[5], result[6]), 256))
           ELSE rgb(Num(1), Num(1), Num(0))

\* hexToRgb(hex): yellow for a missing or empty string and for a string that
\* does not match
hexToRgb(hex) ==
  IF ~hex.present \/ hex.chars = << >> THEN rgb(Num(1), Num(1), Num(0))
  ELSE LET result == hexGroups(hex.chars)
       IN  IF result # << >>
           THEN rgb(Frac(parseInt16(result[1], result[2]), 255),
                    Frac(parseInt16(result[3], result[4]), 255),
                    Frac(parseInt16(result[5], result[6]), 255))
           ELSE rgb(Num(1), Num(1), Num(0))

(***************************************************************************)
(* Processing of one annotation (the body of the for loop).                *)
(***************************************************************************)
\* variant: only the upper bound is compared
PageOutOfRangeUpperOnly(ann, pageCount) ==
  ann.page.def /\ ann.page.v >= pageCount

\* variant: the upper bound compared with > instead of >=
PageOutOfRangeOffByOne(ann, pageCount) ==
  ann.page.def /\ (ann.page.v < 0 \/ ann.page.v > pageCount)

\* ann.page < 0 || ann.page >= pages.length (both false for undefined)
PageOutOfRange(ann, pageCount) ==
  ann.page.def /\ (ann.page.v < 0 \/ ann.page.v >= pageCount)

\* pages[ann.page] is a page object
HasPage(ann, pageCount) ==
  ann.page.def /\ ann.page.v >= 0 /\ ann.page.v < pageCount

\* variant: the Y axis scaled but not flipped
convertCoordsNoFlip(x, y, canvasWidth, canvasHeight, pdfPageWidth, pdfPageHeight) ==
  [x |-> JsMul(JsDiv(x, canvasWidth), pdfPageWidth),
   y |-> JsMul(JsDiv(y, canvasHeight), pdfPageHeight)]

\* variant: the canvas width and height exchanged
convertCoordsSwapped(x, y, canvasWidth, canvasHeight, pdfPageWidth, pdfPageHeight) ==
  [x |-> JsMul(JsDiv(x, canvasHeight), pdfPageWidth),
   y |-> JsSub(pdfPageHeight, JsMul(JsDiv(y, canvasWidth), pdfPageHeight))]

\* variant: the flip taken from the page width
convertCoordsWidthOffset(x, y, canvasWidth, canvasHeight, pdfPageWidth, pdfPageHeight) ==
  [x |-> JsMul(JsDiv(x, canvasWidth), pdfPageWidth),
   y |-> JsSub(pdfPageWidth, JsMul(JsDiv(y, canvasHeight), pdfPageHeight))]

\* the arrow function convertCoords of one loop iteration
convertCoords(x, y, canvasWidth, canvasHeight, pdfPageWidth, pdfPageHeight) ==
  [x |-> JsMul(JsDiv(x, canvasWidth), pdfPageWidth),
   y |-> JsSub(pdfPageHeight, JsMul(JsDiv(y, canvasHeight), pdfPageHeight))]

NoCall ==
  [op |-> "none", page |-> 0, src |-> 0, x |-> Num(0), y |-> Num(0),
   width |-> Num(0), height |-> Num(0), opacity |-> Num(0),
   path |-> << >>, lineCap |-> "none",
   color |-> rgb(Num(0), Num(0), Num(0)), borderWidth |-> Num(0)]

\* variant: a fully opaque highlight
HighlightOpaque == Num(1)

HighlightOpacity == Frac(3, 10)

\* the options of page.drawRectangle for a highlight
drawRectangle(ann, pageSize, i) ==
  LET cw == Num(ann.canvasSize.width)
      ch == Num(ann.canvasSize.height)
      pw == Num(pageSize[1])
      ph == Num(pageSize[2])
      x == Num(ann.rect.x)
      y == Num(ann.rect.y)
      width == Num(ann.rect.width)
      height == Num(ann.rect.height)
      c1 == convertCoords(x, y, cw, ch, pw, ph)
      c2 == convertCoords(JsAdd(x, width), JsAdd(y, height), cw, ch, pw, ph)
      pdfWidth == JsMul(JsDiv(width, cw), pw)
      pdfHeight == JsSub(c1.y, c2.y)
  IN  [NoCall EXCEPT !.op = "drawRectangle", !.page = ann.page.v, !.src = i,
                     !.x = c1.x, !.y = c2.y, !.width = pdfWidth,
                     !.height = pdfHeight, !.opacity = HighlightOpacity,
                     !.color = hexToRgb(ann.color)]

\* tokens of an SVG path string
CmdTok(c) == [t |-> c, v |-> Num(0)]
NumTok(a) == [t |-> "num", v |-> a]

\* ann.paths.map(([x, y]) => `${pdfX} ${pdfY}`)
convertedPath(ann, pageSize) ==
  [j \in 1..Len(ann.paths.pts) |->
     LET c == convertCoords(Num(ann.paths.pts[j][1]), Num(ann.paths.pts[j][2]),
                            Num(ann.canvasSize.width), Num(ann.canvasSize.height),
                            Num(pageSize[1]), Num(pageSize[2]))
     IN  <<NumTok(c.x), NumTok(c.y)>>]

RECURSIVE Join(_)
Join(ss) == IF ss = << >> THEN << >> ELSE Head(ss) \o Join(Tail(ss))

\* variant: the rest of the path taken from the third point on
svgPathSliceTwo(cp) ==
  <<CmdTok("M")>> \o cp[1] \o <<CmdTok("L")>> \o Join(Tail(Tail(cp)))

\* `M ${convertedPath[0]} L ${convertedPath.slice(1).join(' ')}`
svgPath(cp) == <<CmdTok("M")>> \o cp[1] \o <<CmdTok("L")>> \o Join(Tail(cp))

\* variant: only the empty point list is skipped
TooFewPointsOnlyEmpty(ann) == Len(ann.paths.pts) < 1

\* ann.paths.length < 2
TooFewPoints(ann) == Len(ann.paths.pts) < 2

\* variant: the default taken only for a missing stroke width (??)
borderWidthNullish(ann) ==
  IF ann.strokeWidth.def THEN Num(ann.strokeWidth.v) ELSE Num(3)

\* ann.strokeWidth || 3
borderWidth(ann) ==
  IF ann.strokeWidth.def /\ ann.strokeWidth.v # 0 THEN Num(ann.strokeWidth.v)
  ELSE Num(3)

\* the arguments of page.drawSvgPath for a freehand stroke (color is the
\* borderColor option)
drawSvgPath(ann, pageSize, i) ==
  [NoCall EXCEPT !.op = "drawSvgPath", !.page = ann.page.v, !.src = i,
                 !.path = svgPath(convertedPath(ann, pageSize)),
                 !.color = hexToRgb(ann.color),
                 !.borderWidth = borderWidth(ann),
                 !.lineCap = "Round"]

\* variant: every annotation converted with the size of the first page
applyAnnotationFirstPageSize(ann, pgs, i) ==
  IF PageOutOfRange(ann, Len(pgs)) THEN [res |-> "skip", call |-> NoCall]
  ELSE IF ~HasPage(ann, Len(pgs)) THEN [res |-> "throw", call |-> NoCall]
  ELSE IF ~ann.canvasSize.present THEN [res |-> "throw", call |-> NoCall]
  ELSE IF ann.type = "highlight" THEN
         IF ~ann.rect.present THEN [res |-> "throw", call |-> NoCall]
         ELSE [res |-> "draw", call |-> drawRectangle(ann, pgs[1], i)]
  ELSE IF ann.type = "draw" THEN
         IF ~ann.paths.present THEN [res |-> "throw", call |-> NoCall]
         ELSE IF TooFewPoints(ann) THEN [res |-> "skip", call |-> NoCall]
         ELSE [res |-> "draw", call |-> drawSvgPath(ann, pgs[1], i)]
  ELSE [res |-> "skip", call |-> NoCall]

\* one iteration of the loop: the annotation is skipped, throws a TypeError,
\* or issues one draw call
applyAnnotation(ann, pgs, i) ==
  IF PageOutOfRange(ann, Len(pgs)) THEN [res |-> "skip", call |-> NoCall]
  ELSE IF ~HasPage(ann, Len(pgs)) THEN [res |-> "throw", call |-> NoCall]
  ELSE IF ~ann.canvasSize.present THEN [res |-> "throw", call |-> NoCall]
  ELSE IF ann.type = "highlight" THEN
         IF ~ann.rect.present THEN [res |-> "throw", call |-> NoCall]
         ELSE [res |-> "draw", call |-> drawRectangle(ann, pgs[ann.page.v + 1], i)]
  ELSE IF ann.type = "draw" THEN
         IF ~ann.paths.present THEN [res |-> "throw", call |-> NoCall]
         ELSE IF TooFewPoints(ann) THEN [res |-> "skip", call |-> NoCall]
         ELSE [res |-> "draw", call |-> drawSvgPath(ann, pgs[ann.page.v + 1], i)]
  ELSE [res |-> "skip", call |-> NoCall]

(***************************************************************************)
(* The handler.                                                            *)
(***************************************************************************)
VARIABLES
  pc,                \* position of the handler
  req,               \* the request: uploaded file, body, the document in the file
  uploadedFile,      \* "null" or "path"
  annotations,       \* the parsed annotation list
  pages,             \* pdfDoc.getPages(): the size of each page
  idx,               \* position of the for loop in annotations (1-based)
  drawCalls,         \* the draw calls issued on pdfDoc so far, in order
  saveCalls,         \* number of calls of pdfDoc.save()
  annotatedPdfBytes, \* result of pdfDoc.save()
  responses,         \* the responses sent on res, in order
  unlinkCalls,       \* number of calls of fs.unlink
  unlinkFailed,      \* fs.unlink threw (logged by cleanupFiles)
  failedAt,          \* index of the annotation whose processing threw, or 0
  error,             \* the step whose exception the catch block got, or "none"
  fnArgs,            \* arguments of a helper function called on its own
  fnResult           \* what that call returned

\* state of the other POST handlers of the server
VARIABLES
  uploadedFiles,     \* /api/merge: the paths pushed so far
  unlinked,          \* the paths given to fs.unlink, in order
  loadResult,        \* outcome of PDFLib.load: "none" while it was not called
  outBytes,          \* the bytes the handler built (save(), page.pdf())
  browser,           \* /api/convert-to-pdf: "null" or "set"
  chrome,            \* the headless browser process behind that variable
  thrown             \* the exception that left the catch block, or "none"

\* state of one tool component of the front end
VARIABLES
  tool,              \* the mounted component
  file,              \* "null" or the dropped file
  files,             \* MergeTool: number of dropped files
  pageRange,         \* SplitTool: "" or the typed range
  password,          \* UnlockTool: "" or the typed password
  isProcessing,
  downloadBlob,      \* "null" or "blob"
  toolError,         \* the component's error state: "null" or a message
  fetch              \* the request in flight: "none" or "pending"

serverVars == <<uploadedFiles, unlinked, loadResult, outBytes, browser, chrome, thrown>>

toolVars == <<tool, file, files, pageRange, password, isProcessing, downloadBlob,
              toolError, fetch>>

vars == <<pc, req, uploadedFile, annotations, pages, idx, drawCalls, saveCalls,
          annotatedPdfBytes, responses, unlinkCalls, unlinkFailed, failedAt,
          error, fnArgs, fnResult, serverVars, toolVars>>

NoBytes == [set |-> FALSE, content |-> << >>]

\* what pdfDoc.save() returns: the document with the draw calls made so far
Serialize(calls) == [set |-> TRUE, content |-> calls]

JsonError(code) == [status |-> code, type |-> "json", body |-> NoBytes]

\* variant: the bytes read from the upload are sent back
PdfResponseOriginalBytes(bytes) ==
  [status |-> 200, type |-> "pdf", body |-> Serialize(<< >>)]

\* res.send(Buffer.from(annotatedPdfBytes)) with Content-Type application/pdf
PdfResponse(bytes) == [status |-> 200, type |-> "pdf", body |-> bytes]

\* variant: the list walked from its end
AnnAtReversed(anns, i) == anns[Len(anns) + 1 - i]

\* the element the for-of loop visits at its i-th iteration
AnnAt(anns, i) == anns[i]

\* no helper function is called on its own
NoArgs == [fn |-> "none"]
NoResult == [done |-> FALSE]

\* a request without an uploaded file
NoFileRequest ==
  [hasFile |-> FALSE, body |-> [kind |-> "invalid", anns |-> << >>],
   doc |-> <<PageSize(1)>>]

\* the state of a handler invocation before its first statement
HandlerStart ==
  /\ uploadedFile = "null"
  /\ annotations = << >>
  /\ pages = << >>
  /\ idx = 1
  /\ drawCalls = << >>
  /\ saveCalls = 0
  /\ annotatedPdfBytes = NoBytes
  /\ responses = << >>
  /\ unlinkCalls = 0
  /\ unlinkFailed = FALSE
  /\ failedAt = 0
  /\ error = "none"

\* no browser was launched
NoChrome == [launched |-> FALSE, open |-> FALSE, closeCalls |-> 0, closeFailures |-> 0]

\* the locals of the other handlers before their first statement
ServerStart ==
  /\ uploadedFiles = << >>
  /\ unlinked = << >>
  /\ loadResult = "none"
  /\ outBytes = NoBytes
  /\ browser = "null"
  /\ chrome = NoChrome
  /\ thrown = "none"

\* the useState initial values of a tool component
ToolStart ==
  /\ file = "null"
  /\ files = 0
  /\ pageRange = ""
  /\ password = ""
  /\ isProcessing = FALSE
  /\ downloadBlob = "null"
  /\ toolError = "null"
  /\ fetch = "none"

Init ==
  /\ pc = "start"
  /\ req \in Requests
  /\ HandlerStart
  /\ fnArgs = NoArgs
  /\ fnResult = NoResult
  /\ ServerStart
  /\ tool = "none"
  /\ ToolStart

fnVars == <<fnArgs, fnResult>>

\* if (!req.file) return res.status(400)...
RejectNoFile ==
  /\ pc = "start"
  /\ ~req.hasFile
  /\ responses' = Append(responses, JsonError(400))
  /\ pc' = "finally"
  /\ UNCHANGED <<req, uploadedFile, annotations, pages, idx, drawCalls, saveCalls,
                 annotatedPdfBytes, unlinkCalls, unlinkFailed, failedAt, error,
                 fnVars, serverVars, toolVars>>

\* variant: the 400 answer for a non-array is not followed by a return
ParseAnnotationsNoReturn ==
  /\ pc = "start"
  /\ req.hasFile
  /\ uploadedFile' = "path"
  /\ IF req.body.kind = "invalid"
       THEN /\ pc' = "catch"
            /\ error' = "parse"
            /\ UNCHANGED <<annotations, responses>>
     ELSE IF req.body.kind = "notArray"
       THEN /\ responses' = Append(responses, JsonError(400))
            /\ pc' = "readFile"
            /\ UNCHANGED <<annotations, error>>
     ELSE /\ annotations' = req.body.anns
          /\ pc' = "readFile"
          /\ UNCHANGED <<responses, error>>
  /\ UNCHANGED <<req, pages, idx, drawCalls, saveCalls, annotatedPdfBytes,
                 unlinkCalls, unlinkFailed, failedAt, fnVars, serverVars, toolVars>>

\* uploadedFile = req.file.path; JSON.parse(req.body.annotations); the array check
ParseAnnotations ==
  /\ pc = "start"
  /\ req.hasFile
  /\ uploadedFile' = "path"
  /\ IF req.body.kind = "invalid"
       THEN /\ pc' = "catch"
            /\ error' = "parse"
            /\ UNCHANGED <<annotations, responses>>
     ELSE IF req.body.kind = "notArray"
       THEN /\ responses' = Append(responses, JsonError(400))
            /\ pc' = "finally"
            /\ UNCHANGED <<annotations, error>>
     ELSE /\ annotations' = req.body.anns
          /\ pc' = "readFile"
          /\ UNCHANGED <<responses, error>>
  /\ UNCHANGED <<req, pages, idx, drawCalls, saveCalls, annotatedPdfBytes,
                 unlinkCalls, unlinkFailed, failedAt, fnVars, serverVars, toolVars>>

\* await fs.readFile(uploadedFile)
ReadFile ==
  /\ pc = "readFile"
  /\ \E ok \in BOOLEAN :
       IF ok THEN pc' = "load" /\ UNCHANGED error
       ELSE pc' = "catch" /\ error' = "readFile"
  /\ UNCHANGED <<req, uploadedFile, annotations, pages, idx, drawCalls, saveCalls,
                 annotatedPdfBytes, responses, unlinkCalls, unlinkFailed, failedAt,
                 fnVars, serverVars, toolVars>>

\* variant: a failed load is logged and the handler goes on without pages
LoadDocumentFailureIgnored ==
  /\ pc = "load"
  /\ \E ok \in BOOLEAN :
       IF ok THEN pc' = "loop" /\ pages' = req.doc /\ UNCHANGED error
       ELSE pc' = "loop" /\ error' = "load" /\ UNCHANGED pages
  /\ UNCHANGED <<req, uploadedFile, annotations, idx, drawCalls, saveCalls,
                 annotatedPdfBytes, responses, unlinkCalls, unlinkFailed, failedAt,
                 fnVars, serverVars, toolVars>>

\* await PDFLib.load(pdfBytes); pdfDoc.getPages()
LoadDocument ==
  /\ pc = "load"
  /\ \E ok \in BOOLEAN :
       IF ok THEN pc' = "loop" /\ pages' = req.doc /\ UNCHANGED error
       ELSE pc' = "catch" /\ error' = "load" /\ UNCHANGED pages
  /\ UNCHANGED <<req, uploadedFile, annotations, idx, drawCalls, saveCalls,
                 annotatedPdfBytes, responses, unlinkCalls, unlinkFailed, failedAt,
                 fnVars, serverVars, toolVars>>

\* one iteration of for (const ann of annotations)
LoopStep ==
  /\ pc = "loop"
  /\ idx <= Len(annotations)
  /\ LET r == applyAnnotation(AnnAt(annotations, idx), pages, idx)
     IN  IF r.res = "throw"
           THEN /\ pc' = "catch"
                /\ failedAt' = idx
                /\ error' = "annotation"
                /\ UNCHANGED <<idx, drawCalls>>
         ELSE /\ idx' = idx + 1
              /\ drawCalls' = IF r.res = "draw" THEN Append(drawCalls, r.call)
                               ELSE drawCalls
              /\ UNCHANGED <<pc, failedAt, error>>
  /\ UNCHANGED <<req, uploadedFile, annotations, pages, saveCalls,
                 annotatedPdfBytes, responses, unlinkCalls, unlinkFailed, fnVars, serverVars, toolVars>>

\* variant: a failed save is logged and the handler goes on to res.send
SaveFailureIgnored ==
  /\ pc = "loop"
  /\ idx > Len(annotations)
  /\ saveCalls' = saveCalls + 1
  /\ \E ok \in BOOLEAN :
       IF ok THEN /\ pc' = "send"
                  /\ annotatedPdfBytes' = Serialize(drawCalls)
                  /\ UNCHANGED error
       ELSE /\ pc' = "send"
            /\ error' = "save"
            /\ UNCHANGED annotatedPdfBytes
  /\ UNCHANGED <<req, uploadedFile, annotations, pages, idx, drawCalls,
                 responses, unlinkCalls, unlinkFailed, failedAt, fnVars, serverVars, toolVars>>

\* await pdfDoc.save(), after the loop
Save ==
  /\ pc = "loop"
  /\ idx > Len(annotations)
  /\ saveCalls' = saveCalls + 1
  /\ \E ok \in BOOLEAN :
       IF ok THEN /\ pc' = "send"
                  /\ annotatedPdfBytes' = Serialize(drawCalls)
                  /\ UNCHANGED error
       ELSE /\ pc' = "catch"
            /\ error' = "save"
            /\ UNCHANGED annotatedPdfBytes
  /\ UNCHANGED <<req, uploadedFile, annotations, pages, idx, drawCalls,
                 responses, unlinkCalls, unlinkFailed, failedAt, fnVars, serverVars, toolVars>>

\* res.setHeader(...); res.send(Buffer.from(annotatedPdfBytes))
Send ==
  /\ pc = "send"
  /\ responses' = Append(responses, PdfResponse(annotatedPdfBytes))
  /\ pc' = "finally"
  /\ UNCHANGED <<req, uploadedFile, annotations, pages, idx, drawCalls, saveCalls,
                 annotatedPdfBytes, unlinkCalls, unlinkFailed, failedAt, error,
                 fnVars, serverVars, toolVars>>

\* catch (error) { res.status(500).json(...) }
Catch ==
  /\ pc = "catch"
  /\ responses' = Append(responses, JsonError(500))
  /\ pc' = "finally"
  /\ UNCHANGED <<req, uploadedFile, annotations, pages, idx, drawCalls, saveCalls,
                 annotatedPdfBytes, unlinkCalls, unlinkFailed, failedAt, error,
                 fnVars, serverVars, toolVars>>

\* cleanupFiles(files): fs.unlink is called for an entry that is a non-empty
\* string, so not for the null of a request without a file
UnlinkTried(f) == f = "path"

\* variant: the upload is deleted after a sent PDF only
FinallyAfterPdfOnly ==
  /\ pc = "finally"
  /\ IF UnlinkTried(uploadedFile)
        /\ \E k \in 1..Len(responses) : responses[k].status = 200
       THEN /\ unlinkCalls' = unlinkCalls + 1
            /\ \E ok \in BOOLEAN : unlinkFailed' = ~ok
     ELSE UNCHANGED <<unlinkCalls, unlinkFailed>>
  /\ pc' = "done"
  /\ UNCHANGED <<req, uploadedFile, annotations, pages, idx, drawCalls, saveCalls,
                 annotatedPdfBytes, responses, failedAt, error, fnVars, serverVars, toolVars>>

\* finally { await cleanupFiles(uploadedFile) }: a failure of fs.unlink is
\* logged and swallowed
Finally ==
  /\ pc = "finally"
  /\ IF UnlinkTried(uploadedFile)
       THEN /\ unlinkCalls' = unlinkCalls + 1
            /\ \E ok \in BOOLEAN : unlinkFailed' = ~ok
     ELSE UNCHANGED <<unlinkCalls, unlinkFailed>>
  /\ pc' = "done"
  /\ UNCHANGED <<req, uploadedFile, annotations, pages, idx, drawCalls, saveCalls,
                 annotatedPdfBytes, responses, failedAt, error, fnVars, serverVars, toolVars>>

Next ==
  \/ RejectNoFile
  \/ ParseAnnotations
  \/ ReadFile
  \/ LoadDocument
  \/ LoopStep
  \/ Save
  \/ Send
  \/ Catch
  \/ Finally

Spec == Init /\ [][Next]_vars

(***************************************************************************)
(* The helper functions called on their own, on arguments of their whole   *)
(* domain: convertCoords on points inside and outside the canvas, hexToRgb *)
(* on missing, well-formed and malformed color strings.                    *)
(***************************************************************************)
SamplePageSizes == {<<600, 800>>, <<200, 100>>, <<7, 5>>}

CoordArgs ==
  {[fn |-> "convertCoords", x |-> x, y |-> y, cw |-> cw, ch |-> ch,
    pw |-> sz[1], ph |-> sz[2], hex |-> NoColor] :
      x \in (-1)..(MaxCanvas + 1), y \in (-1)..(MaxCanvas + 1),
      cw \in 0..MaxCanvas, ch \in 0..MaxCanvas, sz \in SamplePageSizes}

HexAlphabet == {"8", "f", "F", "g"}

\* color strings: digits and letters, with and without a leading '#'
ColorStrings ==
  LET bodies == SeqsUpTo(HexAlphabet, MaxHexLen)
  IN  bodies \cup {<<"#">> \o b : b \in bodies}

ColorArgs ==
  {[fn |-> "hexToRgb", x |-> 0, y |-> 0, cw |-> 0, ch |-> 0, pw |-> 0, ph |-> 0,
    hex |-> h] : h \in {NoColor} \cup {Color(s) : s \in ColorStrings}}

InitFn ==
  /\ pc = "idle"
  /\ req = NoFileRequest
  /\ HandlerStart
  /\ fnArgs \in CoordArgs \cup ColorArgs
  /\ fnResult = NoResult
  /\ ServerStart
  /\ tool = "none"
  /\ ToolStart

handlerVars == <<pc, req, uploadedFile, annotations, pages, idx, drawCalls, saveCalls,
                 annotatedPdfBytes, responses, unlinkCalls, unlinkFailed, failedAt,
                 error>>

\* convertCoords(x, y) for one canvas size and one page size
CallConvertCoords ==
  /\ fnArgs.fn = "convertCoords"
  /\ ~fnResult.done
  /\ fnResult' = [done |-> TRUE,
                  pt |-> convertCoords(Num(fnArgs.x), Num(fnArgs.y),
                                       Num(fnArgs.cw), Num(fnArgs.ch),
                                       Num(fnArgs.pw), Num(fnArgs.ph)),
                  color |-> rgb(Num(0), Num(0), Num(0))]
  /\ UNCHANGED <<handlerVars, fnArgs, serverVars, toolVars>>

\* hexToRgb(hex)
CallHexToRgb ==
  /\ fnArgs.fn = "hexToRgb"
  /\ ~fnResult.done
  /\ fnResult' = [done |-> TRUE, pt |-> [x |-> Num(0), y |-> Num(0)],
                  color |-> hexToRgb(fnArgs.hex)]
  /\ UNCHANGED <<handlerVars, fnArgs, serverVars, toolVars>>

NextFn ==
  \/ CallConvertCoords
  \/ CallHexToRgb

SpecFn == InitFn /\ [][NextFn]_vars

(***************************************************************************)
(* parsePageRange, in the version of the current server and in the version *)
(* of the older server.  A string is the sequence of its characters.       *)
(***************************************************************************)
\* String.prototype.includes for one character
includes(s, c) == \E i \in 1..Len(s) : s[i] = c

\* String.prototype.split for a one-character separator
RECURSIVE split(_, _)
split(s, sep) ==
  IF ~includes(s, sep) THEN <<s>>
  ELSE LET i == CHOOSE k \in 1..Len(s) : s[k] = sep /\ \A j \in 1..(k - 1) : s[j] # sep
       IN  <<SubSeq(s, 1, i - 1)>> \o split(SubSeq(s, i + 1, Len(s)), sep)

RECURSIVE trimStart(_)
trimStart(s) == IF s # << >> /\ s[1] = " " THEN trimStart(Tail(s)) ELSE s

RECURSIVE trimEnd(_)
trimEnd(s) ==
  IF s # << >> /\ s[Len(s)] = " " THEN trimEnd(SubSeq(s, 1, Len(s) - 1)) ELSE s

\* String.prototype.trim
trim(s) == trimEnd(trimStart(s))

\* the longest prefix of s made of digits of the radix
RECURSIVE digitsPrefix(_, _)
digitsPrefix(s, radix) ==
  IF s # << >> /\ s[1] \in HexDigits /\ HexVal(s[1]) < radix
    THEN <<s[1]>> \o digitsPrefix(Tail(s), radix)
  ELSE << >>

RECURSIVE digitsValue(_, _)
digitsValue(ds, radix) ==
  IF ds = << >> THEN 0
  ELSE radix * digitsValue(SubSeq(ds, 1, Len(ds) - 1), radix) + HexVal(ds[Len(ds)])

\* parseInt(s) without a radix: leading white space and a sign are skipped, a
\* '0x' prefix selects radix 16, the digits that follow are read and the rest
\* of the string is ignored; NaN when no digit follows
parseInt(s) ==
  LET t == trimStart(s)
      signed == t # << >> /\ t[1] \in {"-", "+"}
      u == IF signed THEN Tail(t) ELSE t
      hex == Len(u) >= 2 /\ u[1] = "0" /\ u[2] \in {"x", "X"}
      radix == IF hex THEN 16 ELSE 10
      ds == digitsPrefix(IF hex THEN Tail(Tail(u)) ELSE u, radix)
      v == digitsValue(ds, radix)
  IN  IF ds = << >> THEN NaN
      ELSE Num(IF signed /\ t[1] = "-" THEN 0 - v ELSE v)

isNaN(a) == a.k = "nan"

\* Math.min(a, b) of an integer or NaN with an integer
mathMin(a, b) == IF isNaN(a) THEN NaN ELSE Num(IF a.n < b THEN a.n ELSE b)

\* a <= b: false when one side is NaN
lessEq(a, b) == ~isNaN(a) /\ ~isNaN(b) /\ a.n <= b.n

\* Set.prototype.add: the set keeps the order of insertion
setAdd(pgs, i) == IF includes(pgs, i) THEN pgs ELSE Append(pgs, i)

\* for (let i = start; i <= Math.min(end, maxPages); i++) if (i > 0) pages.add(i)
RECURSIVE addRange(_, _, _)
addRange(pgs, i, last) ==
  IF ~lessEq(i, last) THEN pgs
  ELSE addRange(IF i.n > 0 THEN setAdd(pgs, i.n) ELSE pgs, Num(i.n + 1), last)

\* the body of the loop over the parts, current server
addPart(pgs, part, maxPages) ==
  LET trimmed == trim(part)
  IN  IF includes(trimmed, "-")
        THEN LET pieces == split(trimmed, "-")
                 start == parseInt(trim(pieces[1]))
                 end == parseInt(trim(pieces[2]))
             IN  IF ~isNaN(start) /\ ~isNaN(end) /\ lessEq(start, end)
                   THEN addRange(pgs, start, mathMin(end, maxPages))
                 ELSE pgs
      ELSE LET pageNum == parseInt(trimmed)
           IN  IF ~isNaN(pageNum) /\ pageNum.n > 0 /\ pageNum.n <= maxPages
                 THEN setAdd(pgs, pageNum.n)
               ELSE pgs

RECURSIVE insertSorted(_, _)
insertSorted(sorted, v) ==
  IF sorted = << >> THEN <<v>>
  ELSE IF v < Head(sorted) THEN <<v>> \o sorted
  ELSE <<Head(sorted)>> \o insertSorted(Tail(sorted), v)

\* Array.prototype.sort((a, b) => a - b)
RECURSIVE sortAscending(_)
sortAscending(a) ==
  IF a = << >> THEN << >>
  ELSE insertSorted(sortAscending(SubSeq(a, 1, Len(a) - 1)), a[Len(a)])

RECURSIVE forEachPart(_, _, _, _)
forEachPart(body(_, _, _), pgs, parts, maxPages) ==
  IF parts = << >> THEN pgs
  ELSE forEachPart(body, body(pgs, Head(parts), maxPages), Tail(parts), maxPages)

\* parsePageRange of the current server
parsePageRange(range, maxPages) ==
  sortAscending(forEachPart(addPart, << >>, split(range, ","), maxPages))

\* variant: pages.includes(i) is not tested before the push
pushPageAlways(pgs, i) == Append(pgs, i)

\* if (!pages.includes(i)) pages.push(i)
pushPage(pgs, i) == IF includes(pgs, i) THEN pgs ELSE Append(pgs, i)

\* for (let i = start; i <= Math.min(end, maxPages); i++)
\*   if (i > 0 && !pages.includes(i)) pages.push(i)
RECURSIVE addRangeOlder(_, _, _)
addRangeOlder(pgs, i, last) ==
  IF ~lessEq(i, last) THEN pgs
  ELSE addRangeOlder(IF i.n > 0 THEN pushPage(pgs, i.n) ELSE pgs,
                     Num(i.n + 1), last)

\* the body of the loop over the parts, older server: no test for NaN and no
\* test of start <= end
addPartOlder(pgs, part, maxPages) ==
  LET trimmed == trim(part)
  IN  IF includes(trimmed, "-")
        THEN LET pieces == split(trimmed, "-")
                 start == parseInt(trim(pieces[1]))
                 end == parseInt(trim(pieces[2]))
             IN  addRangeOlder(pgs, start, mathMin(end, maxPages))
      ELSE LET pageNum == parseInt(trimmed)
           IN  IF ~isNaN(pageNum) /\ pageNum.n > 0 /\ pageNum.n <= maxPages
                 THEN pushPage(pgs, pageNum.n)
               ELSE pgs

\* parsePageRange of the older server
parsePageRangeOlder(range, maxPages) ==
  sortAscending(forEachPart(addPartOlder, << >>, split(range, ","), maxPages))

RangeAlphabet == {"0", "1", "2", "-", ",", " ", "x"}

RangeArgs ==
  {[fn |-> "parsePageRange", range |-> r, maxPages |-> m] :
     r \in SeqsUpTo(RangeAlphabet, MaxRangeLen), m \in 0..MaxPages}

InitRange ==
  /\ pc = "idle"
  /\ req = NoFileRequest
  /\ HandlerStart
  /\ fnArgs \in RangeArgs
  /\ fnResult = NoResult
  /\ ServerStart
  /\ tool = "none"
  /\ ToolStart

\* parsePageRange(range, maxPages) of the current server
CallParsePageRange ==
  /\ fnArgs.fn = "parsePageRange"
  /\ ~fnResult.done
  /\ fnResult' = [done |-> TRUE, version |-> "current",
                  pages |-> parsePageRange(fnArgs.range, fnArgs.maxPages)]
  /\ UNCHANGED <<handlerVars, fnArgs, serverVars, toolVars>>

\* parsePageRange(range, maxPages) of the older server
CallParsePageRangeOlder ==
  /\ fnArgs.fn = "parsePageRange"
  /\ ~fnResult.done
  /\ fnResult' = [done |-> TRUE, version |-> "older",
                  pages |-> parsePageRangeOlder(fnArgs.range, fnArgs.maxPages)]
  /\ UNCHANGED <<handlerVars, fnArgs, serverVars, toolVars>>

NextRange ==
  \/ CallParsePageRange
  \/ CallParsePageRangeOlder

SpecRange == InitRange /\ [][NextRange]_vars

(***************************************************************************)
(* The other POST handlers of the current server: /api/merge, /api/split,  *)
(* /api/convert-to-pdf, /api/compress and /api/unlock.  A request names    *)
(* its route and what was uploaded; what a file is decides how reading and *)
(* loading it end, every other library call may succeed or fail.           *)
(***************************************************************************)
\* what an uploaded file is: a document that loads, a file fs.readFile fails
\* on, a file the library fails to parse, a password-protected PDF
FileKinds == {"good", "unreadable", "corrupt", "locked"}

SampleRanges == {<< >>, <<"1">>, <<"1", "-", "2">>, <<"2", ",", "1">>, <<"x">>}

ServerRequest(route, hasFile, fs, kind, range, pw, level, totalPages) ==
  [route |-> route, hasFile |-> hasFile, files |-> fs, kind |-> kind,
   range |-> range, password |-> pw, level |-> level, totalPages |-> totalPages]

MergeRequests ==
  {ServerRequest("merge", FALSE, fs, "good", << >>, "", "undefined", 1) :
     fs \in SeqsUpTo(FileKinds, MaxFiles)}

SplitRequests ==
  {ServerRequest("split", h, << >>, k, r, "", "undefined", n) :
     h \in BOOLEAN, k \in FileKinds, r \in SampleRanges, n \in 1..MaxPages}

ConvertRequests ==
  {ServerRequest("convert-to-pdf", h, << >>, k, << >>, "", "undefined", 1) :
     h \in BOOLEAN, k \in {"good", "unreadable", "corrupt"}}

CompressRequests ==
  {ServerRequest("compress", h, << >>, k, << >>, "", l, 1) :
     h \in BOOLEAN, k \in FileKinds, l \in {"low", "medium", "high", "undefined"}}

UnlockRequests ==
  {ServerRequest("unlock", h, << >>, k, << >>, pw, "undefined", 1) :
     h \in BOOLEAN, k \in FileKinds, pw \in {"", "right", "wrong"}}

ServerRequests ==
  MergeRequests \cup SplitRequests \cup ConvertRequests \cup CompressRequests
    \cup UnlockRequests

InitServer ==
  /\ pc = "start"
  /\ req \in ServerRequests
  /\ HandlerStart
  /\ fnArgs = NoArgs
  /\ fnResult = NoResult
  /\ ServerStart
  /\ tool = "none"
  /\ ToolStart

\* what no handler of the server touches
restVars == <<annotations, drawCalls, annotatedPdfBytes, failedAt, fnArgs, fnResult,
              toolVars>>

\* the bytes a handler built
Built(what) == [set |-> TRUE, content |-> what]

\* fs.readFile followed by PDFLib.load(pdfBytes, { ignoreEncryption: true }) and
\* the test of isEncrypted: the step that throws, or "none"
LoadIgnoringEncryption(kind) ==
  CASE kind = "unreadable" -> "readFile"
    [] kind = "corrupt" -> "load"
    [] kind = "locked" -> "encrypted"
    [] OTHER -> "none"

(* /api/merge *)
\* if (!req.files || req.files.length === 0) return 400; PDFLib.create()
MergeStart ==
  /\ pc = "start"
  /\ req.route = "merge"
  /\ IF req.files = << >>
       THEN /\ responses' = Append(responses, JsonError(400))
            /\ pc' = "finally"
            /\ error' = error
       ELSE /\ \E ok \in BOOLEAN :
                 IF ok THEN pc' = "loop" /\ error' = error
                 ELSE pc' = "catch" /\ error' = "create"
            /\ responses' = responses
  /\ UNCHANGED <<req, uploadedFile, pages, idx, saveCalls, unlinkCalls, unlinkFailed,
                 serverVars, restVars>>

\* one iteration of for (const file of req.files): the path is pushed, the
\* file is read, loaded and its pages are copied
MergeFile ==
  /\ pc = "loop"
  /\ req.route = "merge"
  /\ idx <= Len(req.files)
  /\ uploadedFiles' = Append(uploadedFiles, idx)
  /\ LET step == LoadIgnoringEncryption(req.files[idx])
     IN  IF step # "none"
           THEN pc' = "catch" /\ error' = step /\ idx' = idx
         ELSE \E ok \in BOOLEAN :
                IF ok THEN pc' = "loop" /\ error' = error /\ idx' = idx + 1
                ELSE pc' = "catch" /\ error' = "copyPages" /\ idx' = idx
  /\ UNCHANGED <<req, uploadedFile, pages, saveCalls, responses, unlinkCalls,
                 unlinkFailed, unlinked, loadResult, outBytes, browser, chrome,
                 thrown, restVars>>

\* const mergedPdfBytes = await mergedPdf.save()
MergeSave ==
  /\ pc = "loop"
  /\ req.route = "merge"
  /\ idx > Len(req.files)
  /\ saveCalls' = saveCalls + 1
  /\ \E ok \in BOOLEAN :
       IF ok THEN /\ outBytes' = Built(uploadedFiles)
                  /\ pc' = "send"
                  /\ error' = error
       ELSE /\ outBytes' = outBytes
            /\ pc' = "catch"
            /\ error' = "save"
  /\ UNCHANGED <<req, uploadedFile, pages, idx, responses, unlinkCalls, unlinkFailed,
                 uploadedFiles, unlinked, loadResult, browser, chrome, thrown,
                 restVars>>

\* finally { await cleanupFiles(uploadedFiles) }: fs.unlink for every path of
\* the array, a failure is logged and swallowed
MergeFinally ==
  /\ pc = "finally"
  /\ req.route = "merge"
  /\ unlinked' = unlinked \o uploadedFiles
  /\ unlinkCalls' = unlinkCalls + Len(uploadedFiles)
  /\ IF uploadedFiles = << >> THEN unlinkFailed' = unlinkFailed
     ELSE \E ok \in BOOLEAN : unlinkFailed' = ~ok
  /\ pc' = "done"
  /\ UNCHANGED <<req, uploadedFile, pages, idx, saveCalls, responses, error,
                 uploadedFiles, loadResult, outBytes, browser, chrome, thrown,
                 restVars>>

(* /api/split *)
\* if (!req.file) return 400; uploadedFile = req.file.path;
\* if (!range) return 400
SplitStart ==
  /\ pc = "start"
  /\ req.route = "split"
  /\ IF ~req.hasFile
       THEN /\ responses' = Append(responses, JsonError(400))
            /\ pc' = "finally"
            /\ uploadedFile' = uploadedFile
     ELSE /\ uploadedFile' = "path"
          /\ IF req.range = << >>
               THEN /\ responses' = Append(responses, JsonError(400))
                    /\ pc' = "finally"
             ELSE /\ responses' = responses
                  /\ pc' = "load"
  /\ UNCHANGED <<req, pages, idx, saveCalls, unlinkCalls, unlinkFailed, error,
                 serverVars, restVars>>

\* readFile, load, the isEncrypted test, parsePageRange(range, totalPages) and
\* the test of an empty list
SplitLoad ==
  /\ pc = "load"
  /\ req.route = "split"
  /\ LET step == LoadIgnoringEncryption(req.kind)
         list == parsePageRange(req.range, req.totalPages)
     IN  IF step # "none"
           THEN pc' = "catch" /\ error' = step /\ pages' = pages
         ELSE /\ pages' = list
              /\ IF Len(list) = 0
                   THEN pc' = "catch" /\ error' = "noValidPages"
                 ELSE pc' = "save" /\ error' = error
  /\ UNCHANGED <<req, uploadedFile, idx, saveCalls, responses, unlinkCalls,
                 unlinkFailed, serverVars, restVars>>

\* newPdf.copyPages(pdfDoc, pages.map(p => p - 1)); newPdf.save()
SplitSave ==
  /\ pc = "save"
  /\ req.route = "split"
  /\ saveCalls' = saveCalls + 1
  /\ \E ok \in BOOLEAN :
       IF ok THEN /\ outBytes' = Built([i \in 1..Len(pages) |-> pages[i] - 1])
                  /\ pc' = "send"
                  /\ error' = error
       ELSE /\ outBytes' = outBytes
            /\ pc' = "catch"
            /\ error' = "save"
  /\ UNCHANGED <<req, uploadedFile, pages, idx, responses, unlinkCalls, unlinkFailed,
                 uploadedFiles, unlinked, loadResult, browser, chrome, thrown,
                 restVars>>

(* /api/compress *)
\* if (!req.file) return 400; uploadedFile = req.file.path
CompressStart ==
  /\ pc = "start"
  /\ req.route = "compress"
  /\ IF ~req.hasFile
       THEN /\ responses' = Append(responses, JsonError(400))
            /\ pc' = "finally"
            /\ uploadedFile' = uploadedFile
     ELSE /\ uploadedFile' = "path"
          /\ responses' = responses
          /\ pc' = "load"
  /\ UNCHANGED <<req, pages, idx, saveCalls, unlinkCalls, unlinkFailed, error,
                 serverVars, restVars>>

\* readFile, load and the isEncrypted test
CompressLoad ==
  /\ pc = "load"
  /\ req.route = "compress"
  /\ LET step == LoadIgnoringEncryption(req.kind)
     IN  IF step # "none" THEN pc' = "catch" /\ error' = step
         ELSE pc' = "save" /\ error' = error
  /\ UNCHANGED <<req, uploadedFile, pages, idx, saveCalls, responses, unlinkCalls,
                 unlinkFailed, serverVars, restVars>>

\* pdfDoc.save({ useObjectStreams }): false for level 'low', true otherwise
CompressSave ==
  /\ pc = "save"
  /\ req.route = "compress"
  /\ saveCalls' = saveCalls + 1
  /\ \E ok \in BOOLEAN :
       IF ok THEN /\ outBytes' = Built(<<[useObjectStreams |-> req.level # "low"]>>)
                  /\ pc' = "send"
                  /\ error' = error
       ELSE /\ outBytes' = outBytes
            /\ pc' = "catch"
            /\ error' = "save"
  /\ UNCHANGED <<req, uploadedFile, pages, idx, responses, unlinkCalls, unlinkFailed,
                 uploadedFiles, unlinked, loadResult, browser, chrome, thrown,
                 restVars>>

(* /api/unlock *)
\* if (!req.file) return 400; uploadedFile = req.file.path;
\* if (!password) return 400
UnlockStart ==
  /\ pc = "start"
  /\ req.route = "unlock"
  /\ IF ~req.hasFile
       THEN /\ responses' = Append(responses, JsonError(400))
            /\ pc' = "finally"
            /\ uploadedFile' = uploadedFile
     ELSE /\ uploadedFile' = "path"
          /\ IF req.password = ""
               THEN /\ responses' = Append(responses, JsonError(400))
                    /\ pc' = "finally"
             ELSE /\ responses' = responses
                  /\ pc' = "load"
  /\ UNCHANGED <<req, pages, idx, saveCalls, unlinkCalls, unlinkFailed, error,
                 serverVars, restVars>>

\* PDFLib.load(pdfBytes, { password }) for a kind of file and a password
LoadWithPassword(kind, pw) ==
  CASE kind = "corrupt" -> "error"
    [] kind = "locked" /\ pw # "right" -> "DecryptionError"
    [] OTHER -> "ok"

\* variant: every failure of the load is answered as a wrong password
UnlockLoadAlways401 ==
  /\ pc = "load"
  /\ req.route = "unlock"
  /\ IF req.kind = "unreadable"
       THEN /\ pc' = "catch"
            /\ error' = "readFile"
            /\ UNCHANGED <<loadResult, responses>>
     ELSE /\ loadResult' = LoadWithPassword(req.kind, req.password)
          /\ IF loadResult' # "ok"
               THEN /\ responses' = Append(responses, JsonError(401))
                    /\ pc' = "finally"
                    /\ error' = error
             ELSE /\ responses' = responses
                  /\ pc' = "save"
                  /\ error' = error
  /\ UNCHANGED <<req, uploadedFile, pages, idx, saveCalls, unlinkCalls, unlinkFailed,
                 uploadedFiles, unlinked, outBytes, browser, chrome, thrown, restVars>>

\* readFile, then the load in its own try block: a DecryptionError is
\* answered with 401 and a return, any other error is thrown again
UnlockLoad ==
  /\ pc = "load"
  /\ req.route = "unlock"
  /\ IF req.kind = "unreadable"
       THEN /\ pc' = "catch"
            /\ error' = "readFile"
            /\ UNCHANGED <<loadResult, responses>>
     ELSE /\ loadResult' = LoadWithPassword(req.kind, req.password)
          /\ IF loadResult' = "DecryptionError"
               THEN /\ responses' = Append(responses, JsonError(401))
                    /\ pc' = "finally"
                    /\ error' = error
             ELSE IF loadResult' = "error"
               THEN /\ responses' = responses
                    /\ pc' = "catch"
                    /\ error' = "load"
             ELSE /\ responses' = responses
                  /\ pc' = "save"
                  /\ error' = error
  /\ UNCHANGED <<req, uploadedFile, pages, idx, saveCalls, unlinkCalls, unlinkFailed,
                 uploadedFiles, unlinked, outBytes, browser, chrome, thrown, restVars>>

\* const unlockedBytes = await pdfDoc.save()
UnlockSave ==
  /\ pc = "save"
  /\ req.route = "unlock"
  /\ saveCalls' = saveCalls + 1
  /\ \E ok \in BOOLEAN :
       IF ok THEN /\ outBytes' = Built(<<"unlocked">>)
                  /\ pc' = "send"
                  /\ error' = error
       ELSE /\ outBytes' = outBytes
            /\ pc' = "catch"
            /\ error' = "save"
  /\ UNCHANGED <<req, uploadedFile, pages, idx, responses, unlinkCalls, unlinkFailed,
                 uploadedFiles, unlinked, loadResult, browser, chrome, thrown,
                 restVars>>

(* /api/convert-to-pdf *)
\* if (!req.file) return 400; uploadedFile = req.file.path
ConvertStart ==
  /\ pc = "start"
  /\ req.route = "convert-to-pdf"
  /\ IF ~req.hasFile
       THEN /\ responses' = Append(responses, JsonError(400))
            /\ pc' = "finally"
            /\ uploadedFile' = uploadedFile
     ELSE /\ uploadedFile' = "path"
          /\ responses' = responses
          /\ pc' = "toHtml"
  /\ UNCHANGED <<req, pages, idx, saveCalls, unlinkCalls, unlinkFailed, error,
                 serverVars, restVars>>

\* fs.readFile and mammoth.convertToHtml({ buffer })
ConvertToHtml ==
  /\ pc = "toHtml"
  /\ IF req.kind = "unreadable" THEN pc' = "catch" /\ error' = "readFile"
     ELSE IF req.kind = "corrupt" THEN pc' = "catch" /\ error' = "convertToHtml"
     ELSE pc' = "launch" /\ error' = error
  /\ UNCHANGED <<req, uploadedFile, pages, idx, saveCalls, responses, unlinkCalls,
                 unlinkFailed, serverVars, restVars>>

\* browser = await puppeteer.launch(...)
Launch ==
  /\ pc = "launch"
  /\ \E ok \in BOOLEAN :
       IF ok THEN /\ browser' = "set"
                  /\ chrome' = [chrome EXCEPT !.launched = TRUE, !.open = TRUE]
                  /\ pc' = "newPage"
                  /\ error' = error
       ELSE /\ UNCHANGED <<browser, chrome>>
            /\ pc' = "catch"
            /\ error' = "launch"
  /\ UNCHANGED <<req, uploadedFile, pages, idx, saveCalls, responses, unlinkCalls,
                 unlinkFailed, uploadedFiles, unlinked, loadResult, outBytes, thrown,
                 restVars>>

\* const page = await browser.newPage()
NewPage ==
  /\ pc = "newPage"
  /\ \E ok \in BOOLEAN :
       IF ok THEN pc' = "setContent" /\ error' = error
       ELSE pc' = "catch" /\ error' = "newPage"
  /\ UNCHANGED <<req, uploadedFile, pages, idx, saveCalls, responses, unlinkCalls,
                 unlinkFailed, serverVars, restVars>>

\* await page.setContent(finalHtml, { waitUntil: 'networkidle0' })
SetContent ==
  /\ pc = "setContent"
  /\ \E ok \in BOOLEAN :
       IF ok THEN pc' = "pdf" /\ error' = error
       ELSE pc' = "catch" /\ error' = "setContent"
  /\ UNCHANGED <<req, uploadedFile, pages, idx, saveCalls, responses, unlinkCalls,
                 unlinkFailed, serverVars, restVars>>

\* const pdfBuffer = await page.pdf(...)
PagePdf ==
  /\ pc = "pdf"
  /\ \E ok \in BOOLEAN :
       IF ok THEN /\ outBytes' = Built(<<"converted">>)
                  /\ pc' = "close"
                  /\ error' = error
       ELSE /\ outBytes' = outBytes
            /\ pc' = "catch"
            /\ error' = "pdf"
  /\ UNCHANGED <<req, uploadedFile, pages, idx, saveCalls, responses, unlinkCalls,
                 unlinkFailed, uploadedFiles, unlinked, loadResult, browser, chrome,
                 thrown, restVars>>

\* browser.close() called on the process: it is closed, or the call throws
\* and leaves it open
CloseCalled(c, ok) ==
  [c EXCEPT !.closeCalls = @ + 1,
            !.open = IF ok THEN FALSE ELSE @,
            !.closeFailures = IF ok THEN @ ELSE @ + 1]

\* variant: the variable is not reset after the close
CloseBrowserKeepsVariable ==
  /\ pc = "close"
  /\ \E ok \in BOOLEAN :
       /\ chrome' = CloseCalled(chrome, ok)
       /\ IF ok THEN pc' = "send" /\ error' = error
          ELSE pc' = "catch" /\ error' = "close"
  /\ UNCHANGED <<req, uploadedFile, pages, idx, saveCalls, responses, unlinkCalls,
                 unlinkFailed, uploadedFiles, unlinked, loadResult, outBytes, browser,
                 thrown, restVars>>

\* await browser.close(); browser = null
CloseBrowser ==
  /\ pc = "close"
  /\ \E ok \in BOOLEAN :
       /\ chrome' = CloseCalled(chrome, ok)
       /\ IF ok THEN browser' = "null" /\ pc' = "send" /\ error' = error
          ELSE browser' = browser /\ pc' = "catch" /\ error' = "close"
  /\ UNCHANGED <<req, uploadedFile, pages, idx, saveCalls, responses, unlinkCalls,
                 unlinkFailed, uploadedFiles, unlinked, loadResult, outBytes, thrown,
                 restVars>>

\* catch: if (browser) await browser.close(); res.status(500).json(...).  When
\* that close throws, the exception leaves the catch block before the
\* response is written.
ConvertCatch ==
  /\ pc = "catch"
  /\ req.route = "convert-to-pdf"
  /\ IF browser = "set"
       THEN \E ok \in BOOLEAN :
              /\ chrome' = CloseCalled(chrome, ok)
              /\ IF ok THEN /\ responses' = Append(responses, JsonError(500))
                            /\ thrown' = thrown
                 ELSE /\ responses' = responses
                      /\ thrown' = "close"
     ELSE /\ responses' = Append(responses, JsonError(500))
          /\ UNCHANGED <<chrome, thrown>>
  /\ pc' = "finally"
  /\ UNCHANGED <<req, uploadedFile, pages, idx, saveCalls, unlinkCalls, unlinkFailed,
                 error, uploadedFiles, unlinked, loadResult, outBytes, browser,
                 restVars>>

(* the statements the five handlers have in common *)
\* res.setHeader(...); res.send(Buffer.from(bytes)): the bytes are sent, or
\* the call throws before anything is sent
SendPdf ==
  /\ pc = "send"
  /\ \E ok \in BOOLEAN :
       IF ok THEN /\ responses' = Append(responses, PdfResponse(outBytes))
                  /\ pc' = "finally"
                  /\ error' = error
       ELSE /\ responses' = responses
            /\ pc' = "catch"
            /\ error' = "send"
  /\ UNCHANGED <<req, uploadedFile, pages, idx, saveCalls, unlinkCalls, unlinkFailed,
                 serverVars, restVars>>

\* catch (error) { res.status(500).json(...) } of merge, split, compress, unlock
Catch500 ==
  /\ pc = "catch"
  /\ req.route \in {"merge", "split", "compress", "unlock"}
  /\ responses' = Append(responses, JsonError(500))
  /\ pc' = "finally"
  /\ UNCHANGED <<req, uploadedFile, pages, idx, saveCalls, unlinkCalls, unlinkFailed,
                 error, serverVars, restVars>>

\* variant: the upload is deleted when the try block ended without an error
CleanupFileOnSuccessOnly ==
  /\ pc = "finally"
  /\ req.route \in {"split", "convert-to-pdf", "compress", "unlock"}
  /\ IF UnlinkTried(uploadedFile) /\ error = "none"
       THEN /\ unlinked' = Append(unlinked, uploadedFile)
            /\ unlinkCalls' = unlinkCalls + 1
            /\ \E ok \in BOOLEAN : unlinkFailed' = ~ok
     ELSE UNCHANGED <<unlinked, unlinkCalls, unlinkFailed>>
  /\ pc' = "done"
  /\ UNCHANGED <<req, uploadedFile, pages, idx, saveCalls, responses, error,
                 uploadedFiles, loadResult, outBytes, browser, chrome, thrown,
                 restVars>>

\* finally { await cleanupFiles(uploadedFile) } of split, convert-to-pdf,
\* compress, unlock: fs.unlink once for a path, nothing for null
CleanupFile ==
  /\ pc = "finally"
  /\ req.route \in {"split", "convert-to-pdf", "compress", "unlock"}
  /\ IF UnlinkTried(uploadedFile)
       THEN /\ unlinked' = Append(unlinked, uploadedFile)
            /\ unlinkCalls' = unlinkCalls + 1
            /\ \E ok \in BOOLEAN : unlinkFailed' = ~ok
     ELSE UNCHANGED <<unlinked, unlinkCalls, unlinkFailed>>
  /\ pc' = "done"
  /\ UNCHANGED <<req, uploadedFile, pages, idx, saveCalls, responses, error,
                 uploadedFiles, loadResult, outBytes, browser, chrome, thrown,
                 restVars>>

NextServer ==
  \/ MergeStart
  \/ MergeFile
  \/ MergeSave
  \/ MergeFinally
  \/ SplitStart
  \/ SplitLoad
  \/ SplitSave
  \/ CompressStart
  \/ CompressLoad
  \/ CompressSave
  \/ UnlockStart
  \/ UnlockLoad
  \/ UnlockSave
  \/ ConvertStart
  \/ ConvertToHtml
  \/ Launch
  \/ NewPage
  \/ SetContent
  \/ PagePdf
  \/ CloseBrowser
  \/ ConvertCatch
  \/ SendPdf
  \/ Catch500
  \/ CleanupFile

SpecServer == InitServer /\ [][NextServer]_vars

(***************************************************************************)
(* The tools of the front end (App.js): the state of one mounted component *)
(* and the handlers of its controls.  A control acts when it is rendered   *)
(* and not disabled; the ProcessingOverlay covers the form without         *)
(* disabling its controls.                                                 *)
(***************************************************************************)
Tools == {"merge", "split", "convert", "compress", "unlock"}

\* the tools whose download name is computed from file.name in the render
FileNameTools == {"convert", "compress", "unlock"}

FileNames == {"a", "b"}

\* what a drop hands to onDrop: the accepted files (none when all are rejected)
AcceptedFiles == SeqsUpTo(FileNames, MaxFiles)

\* the outcomes of the request: a 2xx response whose blob is read, a response
\* with an error status, a rejected fetch, a 2xx response whose body fails
FetchOutcomes == {"ok", "status", "rejected", "body"}

\* !file
Falsy(f) == f \in {"null", "undefined"}

\* acceptedFiles[0]
First(accepted) == IF accepted = << >> THEN "undefined" ELSE accepted[1]

InitTool ==
  /\ pc = "idle"
  /\ req = NoFileRequest
  /\ HandlerStart
  /\ fnArgs = NoArgs
  /\ fnResult = NoResult
  /\ ServerStart
  /\ tool \in Tools
  /\ ToolStart

\* if (downloadBlob) return <DownloadResult ...>: the form is not rendered
FormRendered == downloadBlob = "null"

\* the render of the download view: file.name is read by the three tools
RenderThrows == downloadBlob # "null" /\ tool \in FileNameTools /\ Falsy(file)

\* {files.length > 0 && ...} of MergeTool, {!file ? <FileUploadZone> : ...}
HasFile == IF tool = "merge" THEN files > 0 ELSE ~Falsy(file)

\* onDrop: setFiles(prev => [...prev, ...acceptedFiles]) or
\* setFile(acceptedFiles[0]); setError(null)
Drop ==
  /\ tool \in Tools
  /\ FormRendered
  /\ \E accepted \in AcceptedFiles :
       IF tool = "merge"
         THEN /\ files + Len(accepted) <= MaxFiles
              /\ files' = files + Len(accepted)
              /\ file' = file
       ELSE /\ ~HasFile
            /\ file' = First(accepted)
            /\ files' = files
  /\ toolError' = "null"
  /\ UNCHANGED <<tool, pageRange, password, isProcessing, downloadBlob, fetch,
                 handlerVars, fnVars, serverVars>>

\* removeFile(file) of MergeTool, onRemove={() => setFile(null)} of the others
RemoveFile ==
  /\ tool \in Tools
  /\ FormRendered
  /\ HasFile
  /\ IF tool = "merge" THEN files' = files - 1 /\ file' = file
     ELSE file' = "null" /\ files' = files
  /\ UNCHANGED <<tool, pageRange, password, isProcessing, downloadBlob, toolError,
                 fetch, handlerVars, fnVars, serverVars>>

\* onChange of the page range input and of the password input
TypeInput ==
  /\ tool \in {"split", "unlock"}
  /\ FormRendered
  /\ HasFile
  /\ \E text \in {"", "text"} :
       IF tool = "split"
         THEN pageRange' = text /\ password' = password /\ pageRange' # pageRange
       ELSE password' = text /\ pageRange' = pageRange /\ password' # password
  /\ UNCHANGED <<tool, file, files, isProcessing, downloadBlob, toolError, fetch,
                 handlerVars, fnVars, serverVars>>

\* handleSplit and handleUnlock return with a message when the input is empty
InputMissing ==
  \/ tool = "split" /\ pageRange = ""
  \/ tool = "unlock" /\ password = ""

\* disabled={isProcessing}, disabled={isProcessing || !pageRange},
\* disabled={isProcessing || !password}
SubmitDisabled == isProcessing \/ InputMissing

\* handleMerge, handleSplit, handleConvert, handleCompress, handleUnlock up to
\* the fetch: setIsProcessing(true); setError(null); fetch(...)
Submit ==
  /\ tool \in Tools
  /\ FormRendered
  /\ HasFile
  /\ ~SubmitDisabled
  /\ IF InputMissing
       THEN /\ toolError' = "Please enter"
            /\ UNCHANGED <<isProcessing, fetch>>
     ELSE /\ isProcessing' = TRUE
          /\ toolError' = "null"
          /\ fetch' = "pending"
  /\ UNCHANGED <<tool, file, files, pageRange, password, downloadBlob,
                 handlerVars, fnVars, serverVars>>

\* variant: setIsProcessing(false) at the end of the try block
SettleResetInTry(outcome) ==
  /\ tool \in Tools
  /\ fetch = "pending"
  /\ fetch' = outcome
  /\ IF outcome = "ok"
       THEN /\ downloadBlob' = "blob"
            /\ isProcessing' = FALSE
            /\ toolError' = toolError
     ELSE /\ toolError' = "Failed"
          /\ UNCHANGED <<downloadBlob, isProcessing>>
  /\ UNCHANGED <<tool, file, files, pageRange, password, handlerVars, fnVars,
                 serverVars>>

\* the rest of the handler, when the fetch has settled: setDownloadBlob(blob)
\* for a 2xx response, setError(...) in the catch block for an error status,
\* a rejected fetch or a body that cannot be read; finally
\* setIsProcessing(false)
Settle(outcome) ==
  /\ tool \in Tools
  /\ fetch = "pending"
  /\ fetch' = outcome
  /\ IF outcome = "ok"
       THEN downloadBlob' = "blob" /\ toolError' = toolError
     ELSE toolError' = "Failed" /\ downloadBlob' = downloadBlob
  /\ isProcessing' = FALSE
  /\ UNCHANGED <<tool, file, files, pageRange, password, handlerVars, fnVars,
                 serverVars>>

Settles == \E outcome \in FetchOutcomes : Settle(outcome)

\* resetTool, the onReset of the download view
ResetTool ==
  /\ tool \in Tools
  /\ downloadBlob # "null"
  /\ ~RenderThrows
  /\ file' = "null"
  /\ files' = 0
  /\ pageRange' = ""
  /\ password' = ""
  /\ isProcessing' = FALSE
  /\ downloadBlob' = "null"
  /\ toolError' = "null"
  /\ UNCHANGED <<tool, fetch, handlerVars, fnVars, serverVars>>

NextTool ==
  \/ Drop
  \/ RemoveFile
  \/ TypeInput
  \/ Submit
  \/ Settles
  \/ ResetTool

SpecTool == InitTool /\ [][NextTool]_vars

\* every fetch settles: it resolves with a response or rejects
SpecToolLive == SpecTool /\ WF_vars(Settles)

TypeOK ==
  /\ pc \in {"idle", "start", "readFile", "load", "loop", "save", "send", "catch",
            "finally", "done", "toHtml", "launch", "newPage", "setContent", "pdf",
            "close"}
  /\ idx \in 1..(Len(annotations) + 1)
  /\ Len(drawCalls) < idx

(***************************************************************************)
(* Vocabulary of the properties.                                           *)
(***************************************************************************)
Visited == 1..(idx - 1)

CallsOf(i) == {k \in 1..Len(drawCalls) : drawCalls[k].src = i}

\* the annotation has the page index and the canvas size of the data model
HasCommonFields(a) == a.page.def /\ a.canvasSize.present

InRange(a) == a.page.def /\ 0 <= a.page.v /\ a.page.v < Len(pages)

OutOfRange(a) == a.page.def /\ ~(0 <= a.page.v /\ a.page.v < Len(pages))

\* the annotation is one the loop draws
Drawable(a) ==
  /\ InRange(a)
  /\ a.canvasSize.present
  /\ \/ a.type = "highlight" /\ a.rect.present
     \/ a.type = "draw" /\ a.paths.present /\ Len(a.paths.pts) >= 2

Sent(code) == \E k \in 1..Len(responses) : responses[k].status = code

LoopEntered == pc \notin {"start", "readFile", "load"} /\ pages # << >>

\* the coordinate pairs of an SVG path, in path order
SvgPathPoints(path) ==
  LET nums == SelectSeq(path, LAMBDA t : t.t = "num")
  IN  [j \in 1..(Len(nums) \div 2) |-> <<nums[2 * j - 1].v, nums[2 * j].v>>]

\* comparison of finite numbers
Leq(a, b) == a.n * b.d <= b.n * a.d

\* C1: an annotation whose page index is < 0 or >= the page count (the page
\* count itself included) issues no draw call and is never the annotation the
\* request fails at; every drawable annotation visited by the loop, before
\* and after it, has its draw call, and a request with such an annotation
\* whose loop finished has visited the whole list.
C1_OutOfRangeSkipped ==
  LoopEntered =>
    /\ \A i \in 1..Len(annotations) :
         OutOfRange(annotations[i]) => CallsOf(i) = {} /\ failedAt # i
    /\ \A i \in Visited : Drawable(annotations[i]) => CallsOf(i) # {}
    /\ Sent(200) => idx = Len(annotations) + 1

C1_Witness ==
  /\ pc = "done"
  /\ Sent(200)
  /\ Len(annotations) = 2
  /\ annotations[1].page.v = Len(pages)
  /\ annotations[1].type = "highlight"
  /\ CallsOf(1) = {}
  /\ CallsOf(2) # {}

\* C2: an annotation missing a field its kind requires (page index, canvas
\* size, rect of a highlight, point list of a stroke) is never the annotation
\* the request fails at.
C2_MalformedNeverFails ==
  \A i \in 1..Len(annotations) :
    LET a == annotations[i]
    IN  (\/ ~a.page.def
         \/ ~a.canvasSize.present
         \/ a.type = "highlight" /\ ~a.rect.present
         \/ a.type = "draw" /\ ~a.paths.present) => failedAt # i

\* C3: for a canvas with cw, ch > 0, every point handed to a draw call is
\* (X, Y) with X = (x / cw) * pw and Y = ph - (y / ch) * ph, stated without
\* division: X * cw = x * pw and (ph - Y) * ch = y * ph.
MapsTo(x, y, a, c, pt) ==
  LET cw == a.canvasSize.width
      ch == a.canvasSize.height
      pw == pages[c.page + 1][1]
      ph == pages[c.page + 1][2]
  IN  /\ IsFinite(pt[1]) /\ IsFinite(pt[2])
      /\ pt[1].n * cw = x * pw * pt[1].d
      /\ (ph * pt[2].d - pt[2].n) * ch = y * ph * pt[2].d

C3_ConvertCoords ==
  \A k \in 1..Len(drawCalls) :
    LET c == drawCalls[k]
        a == annotations[c.src]
    IN  (a.canvasSize.width > 0 /\ a.canvasSize.height > 0) =>
          /\ c.op = "drawSvgPath" =>
                \A j \in 1..Len(a.paths.pts) :
                  /\ j <= Len(SvgPathPoints(c.path))
                  /\ MapsTo(a.paths.pts[j][1], a.paths.pts[j][2], a, c,
                            SvgPathPoints(c.path)[j])
          /\ c.op = "drawRectangle" =>
                MapsTo(a.rect.x, a.rect.y + a.rect.height, a, c, <<c.x, c.y>>)

C3_Witness ==
  /\ pc = "done"
  /\ \E k \in 1..Len(drawCalls) :
       /\ drawCalls[k].op = "drawSvgPath"
       /\ annotations[drawCalls[k].src].canvasSize = SmallCanvas
       /\ Len(annotations[drawCalls[k].src].paths.pts) = 3
       /\ SvgPathPoints(drawCalls[k].path)[1] = <<Num(120), Num(720)>>
  /\ \E k \in 1..Len(drawCalls) : drawCalls[k].op = "drawRectangle"

\* C4: when the canvas width or height of an annotation is 0, the numbers
\* handed to its draw call are finite and the annotation is not the one the
\* request fails at.
AllFinite(c) ==
  /\ IsFinite(c.x) /\ IsFinite(c.y) /\ IsFinite(c.width) /\ IsFinite(c.height)
  /\ \A j \in 1..Len(c.path) : IsFinite(c.path[j].v)

C4_ZeroCanvasGuarded ==
  /\ \A k \in 1..Len(drawCalls) :
       LET a == annotations[drawCalls[k].src]
       IN  (a.canvasSize.width = 0 \/ a.canvasSize.height = 0) =>
             AllFinite(drawCalls[k])
  /\ \A i \in 1..Len(annotations) :
       LET a == annotations[i]
       IN  (a.canvasSize.present /\ (a.canvasSize.width = 0 \/ a.canvasSize.height = 0))
             => failedAt # i

\* C5: for a canvas with cw, ch > 0 the rectangle of a highlight's draw call
\* has x = (rect.x / cw) * pw, width = (rect.width / cw) * pw, y = the smaller
\* of the mapped Y values of the corners (x, y) and (x + width, y + height),
\* and height = the absolute difference of the two, never negative.
C5_HighlightRect ==
  \A k \in 1..Len(drawCalls) :
    LET c == drawCalls[k]
        a == annotations[c.src]
        cw == a.canvasSize.width
        ch == a.canvasSize.height
        pw == pages[c.page + 1][1]
        ph == pages[c.page + 1][2]
        y1 == Frac(ph * ch - a.rect.y * ph, ch)
        y2 == Frac(ph * ch - (a.rect.y + a.rect.height) * ph, ch)
    IN  (c.op = "drawRectangle" /\ cw > 0 /\ ch > 0) =>
          /\ c.x = Frac(a.rect.x * pw, cw)
          /\ c.width = Frac(a.rect.width * pw, cw)
          /\ c.y = IF Leq(y1, y2) THEN y1 ELSE y2
          /\ c.height = Frac(Abs(a.rect.height) * ph, ch)
          /\ c.height.n >= 0

\* C6: a freehand stroke with fewer than 2 points, carrying the page index and
\* the canvas size of the data model, issues no draw call and is never the
\* annotation the request fails at; the loop goes on to the annotations after
\* it, so a request whose loop was not interrupted visited the whole list.
ShortStroke(a) ==
  a.type = "draw" /\ a.paths.present /\ Len(a.paths.pts) <= 1 /\ HasCommonFields(a)

C6_ShortStrokeSkipped ==
  LoopEntered =>
    /\ \A i \in 1..Len(annotations) :
         ShortStroke(annotations[i]) => CallsOf(i) = {} /\ failedAt # i
    /\ (failedAt = 0 /\ pc # "loop") => idx = Len(annotations) + 1
    /\ \A i \in Visited : Drawable(annotations[i]) => CallsOf(i) # {}

C6_Witness ==
  /\ pc = "done"
  /\ Sent(200)
  /\ Len(annotations) = 2
  /\ ShortStroke(annotations[1])
  /\ Len(annotations[1].paths.pts) = 1
  /\ Len(drawCalls) = 1
  /\ drawCalls[1].src = 2

\* C7: a visited freehand stroke with n >= 2 points on an in-range page (and
\* with its canvas size) has exactly one draw call, a drawSvgPath on its page
\* whose path is M, the first point, L and the other points: n points, the
\* j-th being the image of the j-th input point under convertCoords.
LongStroke(a) ==
  /\ a.type = "draw" /\ a.paths.present /\ Len(a.paths.pts) >= 2
  /\ InRange(a) /\ a.canvasSize.present

C7_StrokePath ==
  \A i \in Visited :
    LET a == annotations[i]
    IN  LongStroke(a) =>
          /\ Cardinality(CallsOf(i)) = 1
          /\ \A k \in CallsOf(i) :
               LET c == drawCalls[k]
                   pts == SvgPathPoints(c.path)
                   sz == pages[a.page.v + 1]
               IN  /\ c.op = "drawSvgPath"
                   /\ c.page = a.page.v
                   /\ Len(c.path) = 2 * Len(a.paths.pts) + 2
                   /\ c.path[1].t = "M" /\ c.path[4].t = "L"
                   /\ Len(pts) = Len(a.paths.pts)
                   /\ \A j \in 1..Len(pts) :
                        LET m == convertCoords(Num(a.paths.pts[j][1]),
                                               Num(a.paths.pts[j][2]),
                                               Num(a.canvasSize.width),
                                               Num(a.canvasSize.height),
                                               Num(sz[1]), Num(sz[2]))
                        IN  pts[j] = <<m.x, m.y>>

C7_Witness ==
  /\ pc = "done"
  /\ Sent(200)
  /\ \E i \in 1..Len(annotations) :
       /\ LongStroke(annotations[i])
       /\ Len(annotations[i].paths.pts) = 3
       /\ \E k \in CallsOf(i) :
            SvgPathPoints(drawCalls[k].path) =
              <<(<<Num(120), Num(720)>>), (<<Num(240), Num(480)>>),
                (<<Num(360), Num(640)>>)>>

\* C8: the draw calls are issued in the order of the annotation list: the
\* loop position only moves forward one annotation at a time, and the log of
\* draw calls is, at every moment, the calls of the visited annotations in
\* list order, so the call of annotation i precedes that of annotation j > i.
RECURSIVE CallsInListOrder(_, _, _)
CallsInListOrder(anns, pgs, n) ==
  IF n = 0 THEN << >>
  ELSE LET r == applyAnnotation(anns[n], pgs, n)
       IN  CallsInListOrder(anns, pgs, n - 1)
             \o (IF r.res = "draw" THEN <<r.call>> ELSE << >>)

C8_ListOrder ==
  LoopEntered =>
    /\ drawCalls = CallsInListOrder(annotations, pages, idx - 1)
    /\ \A k, l \in 1..Len(drawCalls) : k < l => drawCalls[k].src < drawCalls[l].src

C8_Witness ==
  /\ pc = "done"
  /\ Sent(200)
  /\ Len(drawCalls) = 2
  /\ drawCalls[1].page = drawCalls[2].page
  /\ drawCalls[1].op = "drawSvgPath"
  /\ drawCalls[2].op = "drawRectangle"
  /\ drawCalls[1].src = 1 /\ drawCalls[2].src = 2

\* C9: pdfDoc.save() is called at most once, only when the loop has visited
\* the whole list without a failure; the saved bytes hold every draw call (no
\* draw call is issued after the save), and a 200 response carries exactly
\* the bytes save returned, after exactly one save.
C9_SaveOnceAfterLoop ==
  /\ saveCalls <= 1
  /\ saveCalls = 1 => idx = Len(annotations) + 1 /\ failedAt = 0
  /\ annotatedPdfBytes.set => saveCalls = 1 /\ annotatedPdfBytes.content = drawCalls
  /\ \A k \in 1..Len(responses) :
       responses[k].status = 200 =>
         /\ saveCalls = 1
         /\ responses[k].body = annotatedPdfBytes
         /\ responses[k].body.set
         /\ responses[k].body.content = drawCalls

C9_Witness ==
  /\ pc = "done"
  /\ saveCalls = 1
  /\ Len(annotations) = 2
  /\ Len(drawCalls) = 2
  /\ responses = <<PdfResponse(Serialize(drawCalls))>>

\* C10: a request never has more than one response and has exactly one when
\* the handler is done; the response is either the PDF bytes with status 200
\* or a JSON error without PDF bytes, and no PDF is sent by a request in
\* which an annotation failed.
C10_SingleOutcome ==
  /\ Len(responses) <= 1
  /\ pc \in {"finally", "done"} => Len(responses) = 1
  /\ \A k \in 1..Len(responses) :
       LET r == responses[k]
       IN  \/ r.status = 200 /\ r.type = "pdf" /\ r.body.set /\ failedAt = 0
           \/ r.status \in {400, 500} /\ r.type = "json" /\ r.body = NoBytes
  /\ failedAt # 0 => ~Sent(200)

C10_Witness ==
  /\ pc = "done"
  /\ failedAt = 2
  /\ Len(drawCalls) = 1
  /\ responses = <<JsonError(500)>>

\* C11: when the uploaded bytes cannot be loaded, the request fails as a
\* whole: no draw call, no call of save, no PDF bytes, and the one response
\* is the 500 error.
C11_LoadFailureFatal ==
  error = "load" =>
    /\ pc \in {"catch", "finally", "done"}
    /\ drawCalls = << >>
    /\ saveCalls = 0
    /\ annotatedPdfBytes = NoBytes
    /\ ~Sent(200)
    /\ pc \in {"finally", "done"} => responses = <<JsonError(500)>>

C11_Witness ==
  /\ pc = "done"
  /\ error = "load"
  /\ Len(annotations) = 2
  /\ annotations[1].type = "highlight" /\ annotations[1].page = Idx(0)
  /\ annotations[1].canvasSize.present /\ annotations[1].rect.present
  /\ responses = <<JsonError(500)>>

\* C12: when pdfDoc.save() fails after the annotations were applied, the one
\* response is the 500 error and no PDF bytes are sent.
C12_SaveFailureSurfaced ==
  error = "save" =>
    /\ pc \in {"catch", "finally", "done"}
    /\ saveCalls = 1
    /\ idx = Len(annotations) + 1
    /\ ~Sent(200)
    /\ \A k \in 1..Len(responses) :
         responses[k].type = "json" /\ responses[k].body = NoBytes
    /\ pc \in {"finally", "done"} => responses = <<JsonError(500)>>

C12_Witness ==
  /\ pc = "done"
  /\ error = "save"
  /\ Len(drawCalls) = 2
  /\ responses = <<JsonError(500)>>

\* C13: on every path of a request that uploaded a file, fs.unlink has been
\* called exactly once when the handler is done and not before the response
\* was decided; whether the deletion failed or not, the response is the one
\* the path determines (500 after an exception, 400 for a non-array, else the
\* PDF); a request without a file deletes nothing.
ResponseOfPath ==
  IF error # "none" THEN JsonError(500)
  ELSE IF req.body.kind = "notArray" THEN JsonError(400)
  ELSE PdfResponse(annotatedPdfBytes)

C13_CleanupOnce ==
  /\ unlinkCalls <= 1
  /\ pc # "done" => unlinkCalls = 0 /\ ~unlinkFailed
  /\ (pc = "done" /\ req.hasFile) =>
       unlinkCalls = 1 /\ responses = <<ResponseOfPath>>
  /\ (pc = "done" /\ ~req.hasFile) =>
       unlinkCalls = 0 /\ responses = <<JsonError(400)>>

C13_Witness ==
  /\ pc = "done"
  /\ unlinkFailed
  /\ unlinkCalls = 1
  /\ error = "annotation"
  /\ responses = <<JsonError(500)>>

\* C14: every draw call is on the page whose index is its annotation's page
\* index, and for a canvas with cw, ch > 0 its numbers are those obtained
\* from the width and height of that page of the document and from the
\* canvas size of that annotation.
C14_MatchingGeometry ==
  \A k \in 1..Len(drawCalls) :
    LET c == drawCalls[k]
        a == annotations[c.src]
        cw == a.canvasSize.width
        ch == a.canvasSize.height
        pw == req.doc[a.page.v + 1][1]
        ph == req.doc[a.page.v + 1][2]
    IN  /\ c.page = a.page.v
        /\ (cw > 0 /\ ch > 0 /\ c.op = "drawRectangle") =>
             /\ c.x = Frac(a.rect.x * pw, cw)
             /\ c.width = Frac(a.rect.width * pw, cw)
             /\ c.y = Frac(ph * ch - (a.rect.y + a.rect.height) * ph, ch)
             /\ c.height = Frac(a.rect.height * ph, ch)
        /\ (cw > 0 /\ ch > 0 /\ c.op = "drawSvgPath") =>
             /\ Len(SvgPathPoints(c.path)) = Len(a.paths.pts)
             /\ \A j \in 1..Len(a.paths.pts) :
                  SvgPathPoints(c.path)[j] =
                    <<Frac(a.paths.pts[j][1] * pw, cw),
                      Frac(ph * ch - a.paths.pts[j][2] * ph, ch)>>

C14_Witness ==
  /\ pc = "done"
  /\ Len(drawCalls) = 2
  /\ Len(pages) = 2
  /\ pages[1] # pages[2]
  /\ drawCalls[1].page = 0 /\ drawCalls[2].page = 1
  /\ annotations[1].canvasSize = BaseCanvas
  /\ annotations[2].canvasSize = SmallCanvas
  /\ drawCalls[1].x = Num(60) /\ drawCalls[1].width = Num(120)
  /\ drawCalls[2].x = Num(40) /\ drawCalls[2].width = Num(80)

\* C15: every drawRectangle call of a highlight has opacity 3/10, whether the
\* color of the annotation is missing, well-formed or malformed.
C15_HighlightOpacity ==
  \A k \in 1..Len(drawCalls) :
    drawCalls[k].op = "drawRectangle" =>
      /\ IsFinite(drawCalls[k].opacity)
      /\ drawCalls[k].opacity.n * 10 = 3 * drawCalls[k].opacity.d

C15_Witness ==
  /\ pc = "done"
  /\ Len(drawCalls) = 2
  /\ annotations[1].color = Color(ShortHex)
  /\ annotations[2].color = Color(Red)
  /\ drawCalls[1].op = "drawRectangle" /\ drawCalls[2].op = "drawRectangle"
  /\ drawCalls[1].color # drawCalls[2].color

\* C16: an annotation whose type is neither highlight nor draw issues no draw
\* call and is never the annotation the request fails at, whatever its other
\* fields are.
C16_UnknownKindSkipped ==
  \A i \in 1..Len(annotations) :
    annotations[i].type \notin {"highlight", "draw"} =>
      CallsOf(i) = {} /\ failedAt # i

\* C17: hexToRgb returns yellow (1, 1, 0) for a missing color and for a
\* string that is not six hexadecimal digits after an optional '#';
\* otherwise each channel is the value of its two digits divided by 255; in
\* every case each channel is within 0..1.
SixHexDigits(chars) == Len(chars) = 6 /\ \A j \in 1..6 : chars[j] \in HexDigits

WellFormedColor(hex) ==
  /\ hex.present
  /\ \/ SixHexDigits(hex.chars)
     \/ Len(hex.chars) = 7 /\ hex.chars[1] = "#" /\ SixHexDigits(Tail(hex.chars))

ChannelIs(ch, c1, c2) ==
  IsFinite(ch) /\ ch.n * 255 = (16 * HexVal(c1) + HexVal(c2)) * ch.d

InUnitRange(ch) == IsFinite(ch) /\ 0 <= ch.n /\ ch.n <= ch.d

C18_StrokeWidthPositive ==
  \A k \in 1..Len(drawCalls) :
    LET c == drawCalls[k]
        sw == annotations[c.src].strokeWidth
    IN  c.op = "drawSvgPath" =>
          /\ IsFinite(c.borderWidth) /\ c.borderWidth.n > 0
          /\ c.borderWidth = IF sw.def /\ sw.v # 0 THEN Num(sw.v) ELSE Num(3)

\* C18: the borderWidth of every drawSvgPath call is the strokeWidth of the
\* annotation when set and non-zero and 3 when unset or zero; it is positive
\* unless the strokeWidth of the annotation is negative.
C18_StrokeWidthDefault ==
  \A k \in 1..Len(drawCalls) :
    LET c == drawCalls[k]
        sw == annotations[c.src].strokeWidth
    IN  c.op = "drawSvgPath" =>
          /\ c.borderWidth = IF sw.def /\ sw.v # 0 THEN Num(sw.v) ELSE Num(3)
          /\ (~sw.def \/ sw.v >= 0) => c.borderWidth.n > 0

C18_Witness ==
  /\ pc = "done"
  /\ Len(drawCalls) = 2
  /\ annotations[1].strokeWidth = StrokeWidth(0)
  /\ annotations[2].strokeWidth = StrokeWidth(5)
  /\ drawCalls[1].borderWidth = Num(3)
  /\ drawCalls[2].borderWidth = Num(5)

\* C19: for cw, ch > 0 and a point with 0 <= x <= cw and 0 <= y <= ch, the
\* point returned by convertCoords has 0 <= pageX <= pw and 0 <= pageY <= ph.
C19_InsidePage ==
  (/\ fnArgs.fn = "convertCoords" /\ fnResult.done
   /\ fnArgs.cw > 0 /\ fnArgs.ch > 0
   /\ 0 <= fnArgs.x /\ fnArgs.x <= fnArgs.cw
   /\ 0 <= fnArgs.y /\ fnArgs.y <= fnArgs.ch) =>
    LET X == fnResult.pt.x
        Y == fnResult.pt.y
    IN  /\ IsFinite(X) /\ IsFinite(Y)
        /\ 0 <= X.n /\ X.n <= fnArgs.pw * X.d
        /\ 0 <= Y.n /\ Y.n <= fnArgs.ph * Y.d

C19_Witness ==
  /\ fnResult.done
  /\ fnArgs.fn = "convertCoords"
  /\ fnArgs.x = 1 /\ fnArgs.cw = 3 /\ fnArgs.y = 1 /\ fnArgs.ch = 4
  /\ fnArgs.pw = 600 /\ fnArgs.ph = 800
  /\ fnResult.pt = [x |-> Num(200), y |-> Num(600)]

\* C20: for cw, ch > 0 convertCoords maps the canvas corner (0, 0) to the
\* page point (0, ph) and the canvas corner (cw, ch) to (pw, 0).
C20_Corners ==
  (fnArgs.fn = "convertCoords" /\ fnResult.done /\ fnArgs.cw > 0 /\ fnArgs.ch > 0) =>
    /\ (fnArgs.x = 0 /\ fnArgs.y = 0) =>
         fnResult.pt = [x |-> Num(0), y |-> Num(fnArgs.ph)]
    /\ (fnArgs.x = fnArgs.cw /\ fnArgs.y = fnArgs.ch) =>
         fnResult.pt = [x |-> Num(fnArgs.pw), y |-> Num(0)]

C20_Witness ==
  /\ fnResult.done
  /\ fnArgs.fn = "convertCoords"
  /\ fnArgs.x = 3 /\ fnArgs.cw = 3 /\ fnArgs.y = 2 /\ fnArgs.ch = 2
  /\ fnArgs.pw = 200 /\ fnArgs.ph = 100
  /\ fnResult.pt = [x |-> Num(200), y |-> Num(0)]

\* C21: when the list is not empty and every annotation has a page index
\* < 0 or >= the page count, no draw call is issued and no annotation fails;
\* the loop is followed by exactly one save of the document without any
\* drawing, and unless that save itself fails the request is answered with
\* status 200 and those bytes.
C21_AllOutOfRange ==
  (/\ LoopEntered
   /\ annotations # << >>
   /\ \A i \in 1..Len(annotations) : OutOfRange(annotations[i])) =>
    /\ drawCalls = << >>
    /\ failedAt = 0
    /\ error \in {"none", "save"}
    /\ pc \in {"send", "catch", "finally", "done"} => saveCalls = 1
    /\ (pc \in {"send", "finally", "done"} /\ error = "none") =>
         annotatedPdfBytes = Serialize(<< >>)
    /\ (pc \in {"finally", "done"} /\ error = "none") =>
         responses = <<PdfResponse(Serialize(<< >>))>>

C21_Witness ==
  /\ pc = "done"
  /\ Len(annotations) = 1
  /\ annotations[1].page = Idx(-1)
  /\ drawCalls = << >>
  /\ saveCalls = 1
  /\ responses = <<PdfResponse(Serialize(<< >>))>>

\* the request uploaded a file that the single-file handlers receive
SingleFileRoutes == {"split", "convert-to-pdf", "compress", "unlock"}

\* C22: after a merge request with k >= 1 uploaded files has completed, with
\* success or with a failure on any of the files, fs.unlink has been called
\* for every one of the k files.
C22_AllMergeFilesUnlinked ==
  (req.route = "merge" /\ pc = "done" /\ Len(req.files) >= 1
     /\ error \in {"none", "readFile", "load", "encrypted"}) =>
    \A k \in 1..Len(req.files) : \E j \in 1..Len(unlinked) : unlinked[j] = k

\* C23: split, convert-to-pdf, compress and unlock call fs.unlink for the
\* uploaded file exactly once on every path after the upload: never before the
\* finally block, and once when the handler has completed, whatever it answered
\* (400, 401, 500, 200) and whatever was thrown; without an upload nothing is
\* unlinked.
C23_UnlinkedExactlyOnce ==
  req.route \in SingleFileRoutes =>
    /\ pc # "done" => unlinkCalls = 0 /\ unlinked = << >>
    /\ (pc = "done" /\ req.hasFile) => unlinkCalls = 1 /\ unlinked = <<"path">>
    /\ (pc = "done" /\ ~req.hasFile) => unlinkCalls = 0 /\ unlinked = << >>

C23_Witness ==
  /\ pc = "done"
  /\ req.route = "convert-to-pdf"
  /\ req.hasFile
  /\ thrown = "close"
  /\ unlinked = <<"path">>
  /\ unlinkCalls = 1

\* C24: every request of merge, split, convert-to-pdf, compress and unlock has
\* received exactly one HTTP response when its handler has completed, and
\* never more than one before.
C24_ExactlyOneResponse ==
  /\ Len(responses) <= 1
  /\ pc = "done" => Len(responses) = 1

\* C25: in convert-to-pdf close is only called on a browser that is open, and
\* a browser that was launched has been closed when the handler completes,
\* with one call, on the success path and on the failure paths after the
\* launch on which no close call itself fails.
C25_BrowserClosed ==
  /\ [](req.route = "convert-to-pdf" =>
          /\ chrome.closeCalls > 0 => chrome.launched
          /\ chrome.closeCalls <= chrome.closeFailures + 1
          /\ chrome.launched =>
               (chrome.open <=> chrome.closeCalls = chrome.closeFailures)
          /\ (pc \in {"finally", "done"} /\ chrome.launched) =>
               /\ chrome.closeCalls >= 1
               /\ chrome.closeFailures = 0 => ~chrome.open /\ chrome.closeCalls = 1)
  /\ [][chrome'.closeCalls # chrome.closeCalls => chrome.open]_vars

C25_Witness ==
  /\ pc = "done"
  /\ req.route = "convert-to-pdf"
  /\ error = "send"
  /\ chrome.launched
  /\ ~chrome.open
  /\ chrome.closeCalls = 1
  /\ browser = "null"

\* a string that is a decimal number and nothing else
IsNumber(s) ==
  /\ s # << >>
  /\ \A i \in 1..Len(s) : s[i] \in {"0", "1", "2", "3", "4", "5", "6", "7", "8", "9"}

\* the pages in 1..maxPages that one part of a range string names: the number
\* n of a part that is a number, the numbers a..b of a part 'a-b' whose two
\* sides are numbers with a <= b, nothing for any other part
PagesNamedBy(part, maxPages) ==
  LET t == trim(part)
      sides == split(t, "-")
  IN  IF IsNumber(t) THEN {n \in 1..maxPages : n = digitsValue(t, 10)}
      ELSE IF Len(sides) = 2 /\ IsNumber(trim(sides[1])) /\ IsNumber(trim(sides[2]))
        THEN {n \in 1..maxPages :
                digitsValue(trim(sides[1]), 10) <= n /\ n <= digitsValue(trim(sides[2]), 10)}
      ELSE {}

PagesNamed(range, maxPages) ==
  LET parts == split(range, ",")
  IN  UNION {PagesNamedBy(parts[k], maxPages) : k \in 1..Len(parts)}

StrictlyAscending(list) == \A i \in 1..(Len(list) - 1) : list[i] < list[i + 1]

\* C26: the list parsePageRange returns is strictly ascending, its elements
\* are in 1..maxPages, and they are exactly the pages named by the parts of
\* the range string that are a number or a pair of numbers 'a-b' with a <= b;
\* every other part contributes nothing.
C26_ExactlyNamedPages ==
  (fnArgs.fn = "parsePageRange" /\ fnResult.done /\ fnResult.version = "current") =>
    /\ StrictlyAscending(fnResult.pages)
    /\ \A i \in 1..Len(fnResult.pages) : fnResult.pages[i] \in 1..fnArgs.maxPages
    /\ {fnResult.pages[i] : i \in 1..Len(fnResult.pages)}
         = PagesNamed(fnArgs.range, fnArgs.maxPages)

\* C27: for every range string and every maxPages the version of the current
\* server and the version of the older server return the same list.
C27_SameList ==
  (fnArgs.fn = "parsePageRange" /\ fnResult.done) =>
    fnResult.pages =
      IF fnResult.version = "current"
        THEN parsePageRangeOlder(fnArgs.range, fnArgs.maxPages)
      ELSE parsePageRange(fnArgs.range, fnArgs.maxPages)

C27_Witness ==
  /\ fnResult.done
  /\ fnResult.version = "older"
  /\ fnArgs.range = <<"1", "-", "2", "-">>
  /\ fnArgs.maxPages = 2
  /\ fnResult.pages = <<1, 2>>

\* C28: unlock answers 400 without loading when the file or the password is
\* missing, 401 exactly when the load raised a DecryptionError, 500 when the
\* load failed otherwise or the save failed, and 200 with the saved bytes only
\* when the load with the supplied password succeeded.
C28_UnlockStatus ==
  (req.route = "unlock" /\ pc \in {"finally", "done"}) =>
    /\ (~req.hasFile \/ req.password = "") =>
         responses = <<JsonError(400)>> /\ loadResult = "none" /\ saveCalls = 0
    /\ Sent(400) => (~req.hasFile \/ req.password = "")
    /\ Sent(401) <=> loadResult = "DecryptionError"
    /\ loadResult = "DecryptionError" => responses = <<JsonError(401)>>
    /\ (loadResult = "error" \/ error = "save") => responses = <<JsonError(500)>>
    /\ Sent(500) => error \in {"readFile", "load", "save", "send"}
    /\ Sent(200) =>
         /\ loadResult = "ok"
         /\ saveCalls = 1
         /\ responses = <<PdfResponse(Built(<<"unlocked">>))>>

C28_Witness ==
  /\ pc = "done"
  /\ req.route = "unlock"
  /\ req.kind = "corrupt"
  /\ req.password = "wrong"
  /\ loadResult = "error"
  /\ responses = <<JsonError(500)>>

\* C29: in ConvertTool, CompressTool and UnlockTool downloadBlob being set
\* implies that file is set, in every state.
C29_BlobImpliesFile ==
  (tool \in FileNameTools /\ downloadBlob # "null") => ~Falsy(file)

\* C30: in each tool a submit that sets isProcessing is followed by
\* isProcessing being false; when it becomes false after the request, exactly
\* one of downloadBlob and error is set, downloadBlob for a 2xx response whose
\* blob was read and error for an error status or a failed fetch; downloadBlob
\* is never set by a failed request.
C30_ProcessingEnds ==
  /\ [](isProcessing <=> fetch = "pending")
  /\ [][(isProcessing /\ ~isProcessing') =>
          /\ (downloadBlob' # "null") # (toolError' # "null")
          /\ downloadBlob' # "null" <=> fetch' = "ok"]_vars
  /\ [][(downloadBlob = "null" /\ downloadBlob' # "null") =>
          fetch = "pending" /\ fetch' = "ok"]_vars
  /\ (isProcessing ~> ~isProcessing)

C30_Witness ==
  /\ tool = "split"
  /\ fetch = "status"
  /\ ~isProcessing
  /\ downloadBlob = "null"
  /\ toolError = "Failed"

====
